---- MODULE Spec2Model ----
(***************************************************************************)
(* Scheduling & execution engine of MARS: the Scheduler (app/scheduler.py), *)
(* the time calculators (app/domain/scheduling/time_calculator.py) and the  *)
(* browser launch queue (app/services/browser_service.py).                  *)
(*                                                                          *)
(* Time is counted in whole minutes since day 0, 00:00.  An ISO timestamp   *)
(* string is the triple <<day, hour, minute>>, a daily "HH:MM" string is    *)
(* the pair <<hour, minute>>, and Python's None is the empty tuple.         *)
(***************************************************************************)
EXTENDS Integers, Sequences, FiniteSets, TLC

VARIABLES
    now,              \* the wall clock, datetime.now()
    ticked,           \* the loop has run its tick at this clock value
    schedules,        \* Scheduler.schedules (the list of schedule dicts)
    store,            \* the document in SCHEDULES_FILE
    tasks,            \* the running Check Task threads
    download_queue,   \* download_service.download_queue
    fired,            \* history: per schedule id, its last dispatch (the next_check
                      \* computed, the window's start, whether the tick resumed it
                      \* after a download, whether it is a repeat in that window,
                      \* whether its task wrote download_started in that window)
    calc,             \* one application of a pure operation: input and result
    active_browsers,  \* BrowserService.active_browsers
    browser_queue,    \* BrowserService.browser_queue
    worker,           \* the queue processor thread: its position and locals
    callers,          \* the threads in start_browser, by browser_id
    chrome,           \* the Chrome processes, by the browser_id of their session
    lock,             \* Scheduler.lock: the thread that holds it, or "free"
    threads,          \* the threads that use the Scheduler: the operation each
                      \* one is in and its position
    engine,           \* the class whose loop runs: "scheduler" or "executor"
    running,          \* self.running
    loops,            \* the threads created by start(), in order: the position of
                      \* each in _run_loop and the sleeps done of its wait
    repo_lock,        \* ScheduleRepository.lock: "free" or the thread that holds it
    repo_file,        \* the list stored in SCHEDULES_FILE
    repo_cache,       \* ScheduleRepository._schedules_cache: None, or <<list>>
    repo_calls        \* the call of the ScheduleRepository each thread is in

vars == <<now, ticked, schedules, store, tasks, download_queue, fired, calc,
          active_browsers, browser_queue, worker, callers, chrome, lock, threads,
          engine, running, loops, repo_lock, repo_file, repo_cache, repo_calls>>

schedVars == <<now, ticked, schedules, store, tasks, download_queue, fired, calc>>

browserVars == <<active_browsers, browser_queue, worker, callers, chrome>>

lockVars == <<lock, threads>>

loopVars == <<engine, running, loops>>

repoVars == <<repo_lock, repo_file, repo_cache, repo_calls>>

None == <<>>

----------------------------------------------------------------------------
(* Calendar arithmetic of datetime / timedelta.                             *)

MinutesPerHour == 60
MinutesPerDay == 1440
DaysPerWeek == 7
MinInterval == 5
MaxInterval == 8

Min(a, b) == IF a < b THEN a ELSE b

\* datetime.isoformat(): the calendar fields of an instant
IsoFormat(t) ==
    <<t \div MinutesPerDay, (t % MinutesPerDay) \div MinutesPerHour, t % MinutesPerHour>>

\* datetime.fromisoformat(): the instant a timestamp string denotes
FromIsoFormat(iso) == iso[1] * MinutesPerDay + iso[2] * MinutesPerHour + iso[3]

\* now.date()
DateOf(t) == t \div MinutesPerDay

\* now.time(), as minutes since midnight
TimeOf(t) == t % MinutesPerDay

\* datetime.combine(date, datetime.min.time().replace(hour=h, minute=m))
Combine(date, hm) == date * MinutesPerDay + hm[1] * MinutesPerHour + hm[2]

\* datetime.min.time().replace(hour=h, minute=m), as minutes since midnight
ClockOf(hm) == hm[1] * MinutesPerHour + hm[2]

----------------------------------------------------------------------------
(* The window of a schedule at an instant.                                  *)

\* a variant that compares the hours with <=
SpansMidnight_Lax(s) ==
    \/ s.end_time[1] <= s.start_time[1]
    \/ (s.end_time[1] = s.start_time[1] /\ s.end_time[2] < s.start_time[2])

\* spans_midnight = end_hour < start_hour or (end_hour == start_hour and end_min < start_min)
SpansMidnight(s) ==
    \/ s.end_time[1] < s.start_time[1]
    \/ (s.end_time[1] = s.start_time[1] /\ s.end_time[2] < s.start_time[2])

\* a variant that never anchors the window at yesterday's start
DailyWindow_NoYesterday(s, t) ==
    LET today == DateOf(t)
    IN  IF SpansMidnight(s)
        THEN [start |-> Combine(today, s.start_time),
              end   |-> Combine(today, s.end_time) + MinutesPerDay]
        ELSE [start |-> Combine(today, s.start_time),
              end   |-> Combine(today, s.end_time)]

\* start_dt / end_dt of a daily schedule as resolved at now
DailyWindow(s, t) ==
    LET today == DateOf(t)
    IN  IF SpansMidnight(s)
        THEN IF TimeOf(t) < ClockOf(s.start_time)
             THEN [start |-> Combine(today - 1, s.start_time),
                   end   |-> Combine(today, s.end_time)]
             ELSE [start |-> Combine(today, s.start_time),
                   end   |-> Combine(today, s.end_time) + MinutesPerDay]
        ELSE [start |-> Combine(today, s.start_time),
              end   |-> Combine(today, s.end_time)]

\* start_dt / end_dt of a regular schedule
RegularWindow(s) ==
    [start |-> FromIsoFormat(s.start_time), end |-> FromIsoFormat(s.end_time)]

\* a variant that does not clamp next_check to the window end
UpdateNextCheck_NoClamp(s, t, d) ==
    IF s.daily
    THEN LET w == DailyWindow(s, t)
             today == DateOf(t)
         IN  IF t < w.start
             THEN [s EXCEPT !.next_check = IsoFormat(w.start)]
             ELSE IF w.start <= t /\ t <= w.end
             THEN [s EXCEPT !.next_check = IsoFormat(t + d)]
             ELSE IF SpansMidnight(s) /\ TimeOf(t) < ClockOf(s.start_time)
             THEN [s EXCEPT !.next_check = IsoFormat(Combine(today, s.start_time))]
             ELSE [s EXCEPT !.next_check = IsoFormat(Combine(today + 1, s.start_time))]
    ELSE LET w == RegularWindow(s)
         IN  IF t < w.start
             THEN [s EXCEPT !.next_check = IsoFormat(w.start)]
             ELSE IF w.start <= t /\ t <= w.end
             THEN [s EXCEPT !.next_check = IsoFormat(t + d)]
             ELSE [s EXCEPT !.next_check = None]

\* Scheduler._update_next_check: d is the value of random.uniform(5, 8)
UpdateNextCheck(s, t, d) ==
    IF s.daily
    THEN LET w == DailyWindow(s, t)
             today == DateOf(t)
         IN  IF t < w.start
             THEN [s EXCEPT !.next_check = IsoFormat(w.start)]
             ELSE IF w.start <= t /\ t <= w.end
             THEN [s EXCEPT !.next_check = IsoFormat(IF t + d > w.end THEN w.end ELSE t + d)]
             ELSE IF SpansMidnight(s) /\ TimeOf(t) < ClockOf(s.start_time)
             THEN [s EXCEPT !.next_check = IsoFormat(Combine(today, s.start_time))]
             ELSE [s EXCEPT !.next_check = IsoFormat(Combine(today + 1, s.start_time))]
    ELSE LET w == RegularWindow(s)
         IN  IF t < w.start
             THEN [s EXCEPT !.next_check = IsoFormat(w.start)]
             ELSE IF w.start <= t /\ t <= w.end
             THEN [s EXCEPT !.next_check = IsoFormat(IF t + d > w.end THEN w.end ELSE t + d)]
             ELSE [s EXCEPT !.next_check = None]

\* a variant that advances start_time only
RescheduleNextWeek_StartOnly(s, t, d) ==
    LET new_start == FromIsoFormat(s.start_time) + DaysPerWeek * MinutesPerDay
    IN  UpdateNextCheck([s EXCEPT !.start_time = IsoFormat(new_start),
                                  !.status = "pending",
                                  !.active_browser_id = None,
                                  !.manual_stop = FALSE], t, d)

\* Scheduler._reschedule_next_week
RescheduleNextWeek(s, t, d) ==
    LET new_start == FromIsoFormat(s.start_time) + DaysPerWeek * MinutesPerDay
        new_end   == FromIsoFormat(s.end_time) + DaysPerWeek * MinutesPerDay
    IN  UpdateNextCheck([s EXCEPT !.start_time = IsoFormat(new_start),
                                  !.end_time = IsoFormat(new_end),
                                  !.status = "pending",
                                  !.active_browser_id = None,
                                  !.manual_stop = FALSE], t, d)

\* a variant that takes a download that has completed for an active one
IsDownloadActive_IgnoresCompleted(browser_id, dq) ==
    /\ browser_id # None
    /\ browser_id \in DOMAIN dq

\* Scheduler._is_download_active
IsDownloadActive(browser_id, dq) ==
    /\ browser_id # None
    /\ browser_id \in DOMAIN dq
    /\ dq[browser_id] = "active"

----------------------------------------------------------------------------
(* One schedule in one loop tick.  Each operator returns the schedule as    *)
(* the tick leaves it and whether _perform_check was called for it.         *)

\* Scheduler._perform_check: the Check Task is started by the caller; what is
\* left of it on the schedule is the recomputed next_check
PerformCheck(s, t, d) == UpdateNextCheck(s, t, d)

\* a variant that takes every tick inside the window for a due one
IsDue_Always(s, t) == TRUE

\* not next_check or now >= datetime.fromisoformat(next_check)
IsDue(s, t) ==
    s.next_check = None \/ t >= FromIsoFormat(s.next_check)

\* Scheduler._check_daily_schedule
CheckDailySchedule(s, t, dq, d) ==
    LET w == DailyWindow(s, t)
    IN  IF w.start <= t /\ t <= w.end
        THEN IF s.status = "download_started" /\ IsDownloadActive(s.active_browser_id, dq)
             THEN [s |-> s, dispatch |-> FALSE]
             ELSE LET s1 == IF s.status = "download_started"
                            THEN [s EXCEPT !.status = "active", !.active_browser_id = None]
                            ELSE s
                      s2 == IF s1.status # "active"
                            THEN IF s1.next_check # None
                                 THEN IF FromIsoFormat(s1.next_check) <= w.end
                                      THEN [s1 EXCEPT !.status = "active"]
                                      ELSE s1
                                 ELSE [s1 EXCEPT !.status = "active"]
                            ELSE s1
                  IN  IF IsDue(s2, t)
                      THEN [s |-> PerformCheck(s2, t, d), dispatch |-> TRUE]
                      ELSE [s |-> s2, dispatch |-> FALSE]
        ELSE IF t < w.start
        THEN LET s1 == [s EXCEPT !.status = "pending"]
             IN  IF s1.next_check = None
                 THEN [s |-> UpdateNextCheck(s1, t, d), dispatch |-> FALSE]
                 ELSE IF FromIsoFormat(s1.next_check) < t
                 THEN [s |-> UpdateNextCheck(s1, t, d), dispatch |-> FALSE]
                 ELSE [s |-> s1, dispatch |-> FALSE]
        ELSE IF s.status \in {"active", "download_started"}
        THEN [s |-> UpdateNextCheck([s EXCEPT !.status = "pending",
                                              !.last_check = None,
                                              !.active_browser_id = None,
                                              !.manual_stop = FALSE], t, d),
              dispatch |-> FALSE]
        ELSE [s |-> s, dispatch |-> FALSE]

\* a variant that moves a weekly schedule on, in one tick, until its window
\* has not passed
CheckRegularSchedule_CatchesUp(s, t, dq, d) ==
    LET w == RegularWindow(s)
    IN  IF t > w.end /\ s.repeat
        THEN LET s1 == RescheduleNextWeek(s, t, d)
             IN  [s |-> IF t > RegularWindow(s1).end
                        THEN RescheduleNextWeek(s1, t, d) ELSE s1,
                  dispatch |-> FALSE]
        ELSE [s |-> s, dispatch |-> FALSE]

\* Scheduler._check_schedules, the branch of a regular (datetime) schedule
CheckRegularSchedule(s, t, dq, d) ==
    LET w == RegularWindow(s)
    IN  IF t > w.end
        THEN IF s.repeat
             THEN [s |-> RescheduleNextWeek(s, t, d), dispatch |-> FALSE]
             ELSE [s |-> [s EXCEPT !.status = IF s.status # "download_started"
                                               THEN "completed" ELSE s.status,
                                   !.active_browser_id = None,
                                   !.manual_stop = FALSE],
                   dispatch |-> FALSE]
        ELSE IF w.start <= t /\ t <= w.end
        THEN IF s.status = "download_started" /\ IsDownloadActive(s.active_browser_id, dq)
             THEN [s |-> s, dispatch |-> FALSE]
             ELSE LET s1 == IF s.status = "download_started"
                            THEN [s EXCEPT !.status = "active", !.active_browser_id = None]
                            ELSE s
                      s2 == IF s1.status # "active"
                            THEN IF s1.next_check # None
                                 THEN IF FromIsoFormat(s1.next_check) <= w.end
                                      THEN [s1 EXCEPT !.status = "active"]
                                      ELSE s1
                                 ELSE [s1 EXCEPT !.status = "active"]
                            ELSE s1
                  IN  IF IsDue(s2, t)
                      THEN [s |-> PerformCheck(s2, t, d), dispatch |-> TRUE]
                      ELSE [s |-> s2, dispatch |-> FALSE]
        ELSE LET s1 == [s EXCEPT !.status = "pending"]
             IN  IF s1.next_check = None
                 THEN [s |-> UpdateNextCheck(s1, t, d), dispatch |-> FALSE]
                 ELSE IF FromIsoFormat(s1.next_check) < t
                 THEN [s |-> UpdateNextCheck(s1, t, d), dispatch |-> FALSE]
                 ELSE [s |-> s1, dispatch |-> FALSE]

\* the parse of start_time and end_time succeeds: map(int, x.split(':')) gives
\* the two numbers of an "HH:MM" string, datetime.fromisoformat takes an ISO
\* timestamp; each raises ValueError on a string of the other format
ParsesTimes(s) ==
    IF s.daily
    THEN Len(s.start_time) = 2 /\ Len(s.end_time) = 2
    ELSE Len(s.start_time) = 3 /\ Len(s.end_time) = 3

\* Scheduler._check_schedules, the body of the loop over self.schedules; the
\* exception of a failed parse is caught and logged
CheckOne(s, t, dq, d) ==
    IF s.status = "completed" /\ ~s.daily
    THEN [s |-> s, dispatch |-> FALSE]
    ELSE IF ~ParsesTimes(s)
    THEN [s |-> s, dispatch |-> FALSE]
    ELSE IF s.daily
    THEN CheckDailySchedule(s, t, dq, d)
    ELSE CheckRegularSchedule(s, t, dq, d)

\* a variant in which the failed parse of one schedule ends the loop and the
\* tick, the list not saved
CheckSchedulesOn_Aborts(list, saved, t, dq, ds) ==
    LET bad == {i \in DOMAIN list :
                   ~(list[i].status = "completed" /\ ~list[i].daily)
                   /\ ~ParsesTimes(list[i])}
        res == [i \in DOMAIN list |->
                   IF \E k \in bad : k <= i
                   THEN [s |-> list[i], dispatch |-> FALSE]
                   ELSE CheckOne(list[i], t, dq, ds[i])]
    IN  [res |-> res,
         store |-> IF bad = {} THEN [i \in DOMAIN list |-> res[i].s] ELSE saved]

\* Scheduler._check_schedules on a list and the saved copy of it: what the
\* loop leaves of each schedule and whether it dispatched a check of it, and
\* the copy that save_schedules writes; ds[i] is the value of random.uniform
\* for schedule i
CheckSchedulesOn(list, saved, t, dq, ds) ==
    LET res == [i \in DOMAIN list |-> CheckOne(list[i], t, dq, ds[i])]
    IN  [res |-> res, store |-> [i \in DOMAIN list |-> res[i].s]]

\* Scheduler.load_schedules on the stored list: the list it leaves in memory;
\* a record without next_check gets one, and the ValueError that
\* _update_next_check raises on times that do not parse is caught around the
\* whole load, which then leaves the empty list; nothing is saved
LoadOn(file, t, ds) ==
    IF \E i \in DOMAIN file : file[i].next_check = None /\ ~ParsesTimes(file[i])
    THEN [list |-> <<>>, store |-> file]
    ELSE [list |-> [i \in DOMAIN file |->
                      IF file[i].next_check = None
                      THEN UpdateNextCheck(file[i], t, ds[i]) ELSE file[i]],
          store |-> file]

\* refresh_all_schedule_times: the four assignments to a schedule
ResetSchedule(s) ==
    [s EXCEPT !.status = "pending", !.active_browser_id = None,
              !.manual_stop = FALSE, !.last_check = None]

\* the first schedule of the list whose times do not parse, 0 if all parse
FirstUnparsed(list) ==
    IF \E i \in DOMAIN list : ~ParsesTimes(list[i])
    THEN CHOOSE i \in DOMAIN list :
            /\ ~ParsesTimes(list[i])
            /\ \A j \in DOMAIN list : ~ParsesTimes(list[j]) => i <= j
    ELSE 0

\* Scheduler.refresh_all_schedule_times on a list and the saved copy of it:
\* the list and the copy it leaves and the count it returns; the ValueError
\* that _update_next_check raises on times that do not parse is not caught,
\* so the loop ends at that schedule, nothing is saved and nothing returned
RefreshOn(list, saved, t, ds) ==
    LET k == FirstUnparsed(list)
        left == [i \in DOMAIN list |->
                    IF k = 0 \/ i < k
                    THEN UpdateNextCheck(ResetSchedule(list[i]), t, ds[i])
                    ELSE IF i = k THEN ResetSchedule(list[i])
                    ELSE list[i]]
    IN  [list |-> left,
         store |-> IF k = 0 THEN left ELSE saved,
         count |-> IF k = 0 THEN Len(list) ELSE 0,
         raised |-> k # 0]

\* browser_id = f"sched_{schedule['id']}_{int(time.time())}"
BrowserId(schedule_id, t) == <<"sched", schedule_id, t>>

----------------------------------------------------------------------------
(* The time calculators of app/domain/scheduling/time_calculator.py.        *)

\* DailyTimeCalculator.calculate_next_check
DailyCalculateNextCheck(s, t, d) ==
    LET w == DailyWindow(s, t)
        today == DateOf(t)
    IN  IF t < w.start
        THEN [s EXCEPT !.next_check = IsoFormat(w.start)]
        ELSE IF w.start <= t /\ t <= w.end
        THEN [s EXCEPT !.next_check = IsoFormat(IF t + d > w.end THEN w.end ELSE t + d)]
        ELSE IF SpansMidnight(s) /\ TimeOf(t) < ClockOf(s.start_time)
        THEN [s EXCEPT !.next_check = IsoFormat(Combine(today, s.start_time))]
        ELSE [s EXCEPT !.next_check = IsoFormat(Combine(today + 1, s.start_time))]

\* a variant that does not clamp next_check to the window end
RegularCalculateNextCheck_NoClamp(s, t, d) ==
    LET w == RegularWindow(s)
    IN  IF t < w.start
        THEN [s EXCEPT !.next_check = IsoFormat(w.start)]
        ELSE IF w.start <= t /\ t <= w.end
        THEN [s EXCEPT !.next_check = IsoFormat(t + d)]
        ELSE [s EXCEPT !.next_check = None]

\* RegularTimeCalculator.calculate_next_check
RegularCalculateNextCheck(s, t, d) ==
    LET w == RegularWindow(s)
    IN  IF t < w.start
        THEN [s EXCEPT !.next_check = IsoFormat(w.start)]
        ELSE IF w.start <= t /\ t <= w.end
        THEN [s EXCEPT !.next_check = IsoFormat(IF t + d > w.end THEN w.end ELSE t + d)]
        ELSE [s EXCEPT !.next_check = None]

\* DailyTimeCalculator.check_schedule that looks at next_check alone
DailyCheckSchedule_DueOnly(s, t, d) ==
    LET w == DailyWindow(s, t)
    IN  IF w.start <= t /\ t <= w.end
        THEN IF s.status = "download_started"
             THEN [s |-> s, dispatch |-> FALSE]
             ELSE [s |-> [s EXCEPT !.status = "active"],
                   dispatch |-> \/ s.next_check = None
                                \/ t >= FromIsoFormat(s.next_check)]
        ELSE [s |-> s, dispatch |-> FALSE]

\* DailyTimeCalculator.check_schedule: the schedule as it is left and the
\* value returned
DailyCheckSchedule(s, t, d) ==
    LET w == DailyWindow(s, t)
    IN  IF w.start <= t /\ t <= w.end
        THEN IF s.status = "download_started"
             THEN [s |-> s, dispatch |-> FALSE]
             ELSE [s |-> [s EXCEPT !.status = "active"],
                   dispatch |-> \/ s.status = "pending"
                                \/ s.next_check = None
                                \/ t >= FromIsoFormat(s.next_check)]
        ELSE IF t < w.start
        THEN LET s1 == [s EXCEPT !.status = "pending"]
             IN  IF s1.next_check = None
                 THEN [s |-> DailyCalculateNextCheck(s1, t, d), dispatch |-> FALSE]
                 ELSE IF FromIsoFormat(s1.next_check) # w.start
                 THEN [s |-> DailyCalculateNextCheck(s1, t, d), dispatch |-> FALSE]
                 ELSE [s |-> s1, dispatch |-> FALSE]
        ELSE IF s.status \in {"active", "download_started"}
        THEN [s |-> DailyCalculateNextCheck([s EXCEPT !.status = "pending",
                                                      !.last_check = None], t, d),
              dispatch |-> FALSE]
        ELSE [s |-> s, dispatch |-> FALSE]

\* RegularTimeCalculator.check_schedule
RegularCheckSchedule(s, t, d) ==
    LET w == RegularWindow(s)
    IN  IF t > w.end
        THEN [s |-> s, dispatch |-> FALSE]
        ELSE IF w.start <= t /\ t <= w.end
        THEN IF s.status = "download_started"
             THEN [s |-> s, dispatch |-> FALSE]
             ELSE [s |-> [s EXCEPT !.status = "active"],
                   dispatch |-> \/ s.status = "pending"
                                \/ s.next_check = None
                                \/ t >= FromIsoFormat(s.next_check)]
        ELSE LET s1 == [s EXCEPT !.status = "pending"]
             IN  IF s1.next_check = None
                 THEN [s |-> RegularCalculateNextCheck(s1, t, d), dispatch |-> FALSE]
                 ELSE IF FromIsoFormat(s1.next_check) # w.start
                 THEN [s |-> RegularCalculateNextCheck(s1, t, d), dispatch |-> FALSE]
                 ELSE [s |-> s1, dispatch |-> FALSE]

\* ScheduleExecutor._update_next_check: the calculator of the schedule's type
ExecutorUpdateNextCheck(s, t, d) ==
    IF s.daily
    THEN DailyCalculateNextCheck(s, t, d)
    ELSE RegularCalculateNextCheck(s, t, d)

\* ScheduleExecutor._perform_check: the Check Task is started by the caller;
\* what is left of it on the schedule is the recomputed next_check
ExecutorPerformCheck(s, t, d) == ExecutorUpdateNextCheck(s, t, d)

\* ScheduleExecutor.reschedule_weekly
RescheduleWeekly(s, t, d) ==
    LET new_start == FromIsoFormat(s.start_time) + DaysPerWeek * MinutesPerDay
        new_end   == FromIsoFormat(s.end_time) + DaysPerWeek * MinutesPerDay
    IN  ExecutorUpdateNextCheck([s EXCEPT !.start_time = IsoFormat(new_start),
                                          !.end_time = IsoFormat(new_end),
                                          !.status = "pending"], t, d)

\* ScheduleExecutor.execute_schedules, the body of the loop over schedules;
\* the exception of a failed parse is caught and logged
ExecuteOne(s, t, d) ==
    IF s.status = "completed" /\ ~s.daily
    THEN [s |-> s, dispatch |-> FALSE]
    ELSE IF ~ParsesTimes(s)
    THEN [s |-> s, dispatch |-> FALSE]
    ELSE IF s.daily
    THEN LET res == DailyCheckSchedule(s, t, d)
         IN  IF res.dispatch
             THEN [s |-> ExecutorPerformCheck(res.s, t, d), dispatch |-> TRUE]
             ELSE res
    ELSE IF t > RegularWindow(s).end
    THEN IF s.repeat
         THEN [s |-> RescheduleWeekly(s, t, d), dispatch |-> FALSE]
         ELSE [s |-> [s EXCEPT !.status = IF s.status # "download_started"
                                           THEN "completed" ELSE s.status],
               dispatch |-> FALSE]
    ELSE LET res == RegularCheckSchedule(s, t, d)
         IN  IF res.dispatch
             THEN [s |-> ExecutorPerformCheck(res.s, t, d), dispatch |-> TRUE]
             ELSE res

----------------------------------------------------------------------------
(* Bounds of the model.                                                     *)

\* the clock is observed on MaxDay + 1 consecutive nights, at MaxFine + 1
\* instants FineStep minutes apart, the first at minute FirstMinute of the day
MaxDay == 0
MaxFine == 7
FineStep == 3
FirstMinute == 1428
\* Check Task threads alive at once, downloads ever started
MaxTasks == 1
MaxDownloads == 1

Times ==
    {FirstMinute + day * MinutesPerDay + k * FineStep :
        day \in 0..MaxDay, k \in 0..MaxFine}

\* the windows of the schedules that are added: a same-day daily window, a
\* daily window across midnight, a one-shot window, a weekly window, and a
\* weekly window left two weeks in the past
Configs ==
    { [daily |-> TRUE,  repeat |-> FALSE, start_time |-> <<23, 51>>, end_time |-> <<23, 57>>],
      [daily |-> TRUE,  repeat |-> FALSE, start_time |-> <<23, 54>>, end_time |-> <<0, 6>>],
      [daily |-> FALSE, repeat |-> FALSE, start_time |-> <<0, 23, 54>>, end_time |-> <<1, 0, 6>>],
      [daily |-> FALSE, repeat |-> TRUE,  start_time |-> <<0, 23, 54>>, end_time |-> <<1, 0, 6>>],
      [daily |-> FALSE, repeat |-> TRUE,  start_time |-> <<-14, 23, 54>>, end_time |-> <<-13, 0, 6>>] }

Intervals == MinInterval..MaxInterval

WindowOf(s, t) == IF s.daily THEN DailyWindow(s, t) ELSE RegularWindow(s)

InWindow(s, t) == WindowOf(s, t).start <= t /\ t <= WindowOf(s, t).end

----------------------------------------------------------------------------
(* The Scheduler.                                                           *)

\* 'id': str(int(time.time() * 1000))
NewId(t) == t

\* Scheduler.add_schedule: the dict it builds, before _update_next_check
NewSchedule(cfg, t) ==
    [id |-> NewId(t), daily |-> cfg.daily, repeat |-> cfg.repeat,
     start_time |-> cfg.start_time, end_time |-> cfg.end_time,
     status |-> "pending", next_check |-> None, last_check |-> None,
     active_browser_id |-> None, manual_stop |-> FALSE]

\* time passes: the clock reaches the next instant at which it is observed
Advance ==
    /\ \E t \in Times :
          /\ t > now
          /\ \A u \in Times : u > now => t <= u
          /\ now' = t
    /\ ticked' = FALSE
    /\ UNCHANGED <<schedules, store, tasks, download_queue, fired, calc>>
    /\ UNCHANGED browserVars
    /\ UNCHANGED lockVars
    /\ UNCHANGED loopVars
    /\ UNCHANGED repoVars

\* the Check Task threads that _perform_check starts in a tick
Dispatched(res, t) ==
    {[sid |-> res[i].s.id, bid |-> BrowserId(res[i].s.id, t), pc |-> "start"] :
        i \in {j \in DOMAIN res : res[j].dispatch}}

\* Scheduler._check_schedules: one tick of _run_loop
Tick ==
    /\ ~ticked
    /\ \E ds \in [DOMAIN schedules -> Intervals] :
          LET r == CheckSchedulesOn(schedules, store, now, download_queue, ds)
              res == r.res
              new == Dispatched(res, now)
          IN  /\ Cardinality(tasks \cup new) <= MaxTasks
              /\ schedules' = [i \in DOMAIN schedules |-> res[i].s]
              /\ store' = r.store
              /\ tasks' = tasks \cup new
              /\ fired' = [id \in DOMAIN fired \cup {n.sid : n \in new} |->
                              IF \E i \in DOMAIN res : res[i].dispatch /\ res[i].s.id = id
                              THEN LET i == CHOOSE j \in DOMAIN res :
                                                res[j].dispatch /\ res[j].s.id = id
                                   IN  [next_check |-> res[i].s.next_check,
                                        start |-> WindowOf(schedules[i], now).start,
                                        resumed |-> schedules[i].status = "download_started",
                                        written |-> "no",
                                        again |-> /\ id \in DOMAIN fired
                                                  /\ fired[id].start =
                                                        WindowOf(schedules[i], now).start]
                              ELSE fired[id]]
    /\ ticked' = TRUE
    /\ UNCHANGED <<now, download_queue, calc>>
    /\ UNCHANGED browserVars
    /\ UNCHANGED lockVars
    /\ UNCHANGED loopVars
    /\ UNCHANGED repoVars

\* Scheduler._run_browser_check_task: start_browser returns
TaskStartBrowser(task, success) ==
    /\ task \in tasks
    /\ task.pc = "start"
    /\ tasks' = IF success
                THEN (tasks \ {task}) \cup {[task EXCEPT !.pc = "monitor"]}
                ELSE tasks \ {task}
    /\ UNCHANGED <<now, ticked, schedules, store, download_queue, fired, calc>>
    /\ UNCHANGED browserVars
    /\ UNCHANGED lockVars
    /\ UNCHANGED loopVars
    /\ UNCHANGED repoVars

\* download_service.get_download_status(browser_id)
GetDownloadStatus(browser_id, dq) == browser_id \in DOMAIN dq

\* the index of the first schedule of the list with this id, 0 if there is none
FirstWithId(list, id) ==
    IF \E i \in DOMAIN list : list[i].id = id
    THEN CHOOSE i \in DOMAIN list :
            /\ list[i].id = id
            /\ \A j \in DOMAIN list : list[j].id = id => i <= j
    ELSE 0

\* Scheduler._run_browser_check_task: the poll that sees the download, the
\* write under the lock, and close_browser
TaskDownloadStarted(task) ==
    /\ task \in tasks
    /\ task.pc = "monitor"
    /\ GetDownloadStatus(task.bid, download_queue)
    /\ LET i == FirstWithId(schedules, task.sid)
       IN  IF i = 0
           THEN UNCHANGED <<schedules, store>>
           ELSE /\ schedules' = [schedules EXCEPT ![i].status = "download_started",
                                                  ![i].active_browser_id = task.bid]
                /\ store' = schedules'
    /\ tasks' = tasks \ {task}
    /\ fired' = IF FirstWithId(schedules, task.sid) = 0
                THEN fired
                ELSE [fired EXCEPT ![task.sid].written =
                        IF /\ fired[task.sid].start =
                                 WindowOf(schedules[FirstWithId(schedules, task.sid)], now).start
                           /\ InWindow(schedules[FirstWithId(schedules, task.sid)], now)
                        THEN "in" ELSE "late"]
    /\ UNCHANGED <<now, ticked, download_queue, calc>>
    /\ UNCHANGED browserVars
    /\ UNCHANGED lockVars
    /\ UNCHANGED loopVars
    /\ UNCHANGED repoVars

\* a Check Task that, at its end, puts its schedule back to pending
TaskFinish_ResetsSchedule(task) ==
    /\ task \in tasks
    /\ task.pc = "monitor"
    /\ tasks' = tasks \ {task}
    /\ schedules' = [i \in DOMAIN schedules |->
                        IF schedules[i].id = task.sid
                        THEN [schedules[i] EXCEPT !.status = "pending"]
                        ELSE schedules[i]]
    /\ store' = schedules'
    /\ UNCHANGED <<now, ticked, download_queue, fired, calc>>
    /\ UNCHANGED browserVars
    /\ UNCHANGED lockVars
    /\ UNCHANGED loopVars
    /\ UNCHANGED repoVars

\* Scheduler._run_browser_check_task: the duration elapses, or the session is
\* gone, with no download seen
TaskFinish(task) ==
    /\ task \in tasks
    /\ task.pc = "monitor"
    /\ tasks' = tasks \ {task}
    /\ UNCHANGED <<now, ticked, schedules, store, download_queue, fired, calc>>
    /\ UNCHANGED browserVars
    /\ UNCHANGED lockVars
    /\ UNCHANGED loopVars
    /\ UNCHANGED repoVars

\* the detector of a running session starts a download (download_service.start_download)
DownloadStart(task) ==
    /\ task \in tasks
    /\ task.pc = "monitor"
    /\ task.bid \notin DOMAIN download_queue
    /\ Cardinality(DOMAIN download_queue) < MaxDownloads
    /\ download_queue' = (task.bid :> "active") @@ download_queue
    /\ UNCHANGED <<now, ticked, schedules, store, tasks, fired, calc>>
    /\ UNCHANGED browserVars
    /\ UNCHANGED lockVars
    /\ UNCHANGED loopVars
    /\ UNCHANGED repoVars

\* a download ends (completes, fails or is stopped): 'completed_at' is set
DownloadEnd(browser_id) ==
    /\ browser_id \in DOMAIN download_queue
    /\ download_queue[browser_id] = "active"
    /\ download_queue' = [download_queue EXCEPT ![browser_id] = "completed"]
    /\ UNCHANGED <<now, ticked, schedules, store, tasks, fired, calc>>
    /\ UNCHANGED browserVars
    /\ UNCHANGED lockVars
    /\ UNCHANGED loopVars
    /\ UNCHANGED repoVars

\* the write of Scheduler._run_browser_check_task on a list and the saved copy
\* of it: the first schedule with the task's schedule id becomes
\* download_started with the task's browser id, and the list is saved
TaskWriteOn(list, saved, schedule_id, browser_id) ==
    LET i == FirstWithId(list, schedule_id)
    IN  IF i = 0
        THEN [list |-> list, store |-> saved]
        ELSE LET left == [list EXCEPT ![i].status = "download_started",
                                      ![i].active_browser_id = browser_id]
             IN  [list |-> left, store |-> left]

\* Scheduler.add_schedule on a list and the saved copy of it; ms is the value
\* of int(time.time() * 1000) at the call, t the value of datetime.now()
AddOn(list, saved, cfg, ms, t, d) ==
    LET schedule == UpdateNextCheck(NewSchedule(cfg, ms), t, d)
        left == Append(list, schedule)
    IN  [list |-> left, store |-> left, ret |-> schedule]

\* Scheduler.remove_schedule on a list and the saved copy of it
RemoveOn(list, saved, schedule_id) ==
    LET left == SelectSeq(list, LAMBDA s : s.id # schedule_id)
    IN  [list |-> left, store |-> left, ret |-> TRUE]

\* Scheduler.update_schedule on a list and the saved copy of it: the first
\* schedule with the id gets the new fields; None is returned if there is
\* none. The ValueError that _update_next_check raises on times that do not
\* parse is not caught: the fields and the status are then set already, and
\* nothing is saved or returned
UpdateOn(list, saved, schedule_id, cfg, t, d) ==
    LET i == FirstWithId(list, schedule_id)
    IN  IF i = 0
        THEN [list |-> list, store |-> saved, ret |-> None, raised |-> FALSE]
        ELSE LET assigned == [list[i] EXCEPT !.start_time = cfg.start_time,
                                             !.end_time = cfg.end_time,
                                             !.repeat = cfg.repeat,
                                             !.daily = cfg.daily,
                                             !.status = "pending"]
             IN  IF ParsesTimes(assigned)
                 THEN LET schedule == UpdateNextCheck(assigned, t, d)
                          left == [list EXCEPT ![i] = schedule]
                      IN  [list |-> left, store |-> left, ret |-> schedule,
                           raised |-> FALSE]
                 ELSE [list |-> [list EXCEPT ![i] = assigned], store |-> saved,
                       ret |-> None, raised |-> TRUE]

\* a variant that takes the first schedule with the id, whatever its
\* active_browser_id
SlotOwner_AnyBrowserId(list, browser_id) ==
    IF \E i \in DOMAIN list : list[i].id = browser_id[2]
    THEN CHOOSE i \in DOMAIN list :
            /\ list[i].id = browser_id[2]
            /\ \A j \in DOMAIN list : list[j].id = browser_id[2] => i <= j
    ELSE 0

\* the schedule that move_to_next_slot(browser_id) changes, 0 if none
SlotOwner(list, browser_id) ==
    IF \E i \in DOMAIN list :
          list[i].id = browser_id[2] /\ list[i].active_browser_id = browser_id
    THEN CHOOSE i \in DOMAIN list :
            /\ list[i].id = browser_id[2] /\ list[i].active_browser_id = browser_id
            /\ \A j \in DOMAIN list :
                  (list[j].id = browser_id[2] /\ list[j].active_browser_id = browser_id)
                      => i <= j
    ELSE 0

\* a variant that moves a daily schedule to the start time of the same day
MovedSchedule_SameDay(s, t, d) ==
    LET s1 == [s EXCEPT !.status = "pending",
                        !.active_browser_id = None,
                        !.manual_stop = FALSE]
    IN  IF s1.daily
        THEN [s1 EXCEPT !.next_check = IsoFormat(Combine(DateOf(t), s1.start_time))]
        ELSE IF s1.repeat
        THEN RescheduleNextWeek(s1, t, d)
        ELSE UpdateNextCheck([s1 EXCEPT !.status = "completed"], t, d)

\* Scheduler.move_to_next_slot, the schedule it leaves
MovedSchedule(s, t, d) ==
    LET s1 == [s EXCEPT !.status = "pending",
                        !.active_browser_id = None,
                        !.manual_stop = FALSE]
    IN  IF s1.daily
        THEN [s1 EXCEPT !.next_check = IsoFormat(Combine(DateOf(t) + 1, s1.start_time))]
        ELSE IF s1.repeat
        THEN RescheduleNextWeek(s1, t, d)
        ELSE UpdateNextCheck([s1 EXCEPT !.status = "completed"], t, d)

\* Scheduler.move_to_next_slot on a list and the saved copy of it: the list
\* and the copy it leaves, and the value it returns
MoveToNextSlotOn(list, saved, browser_id, t, d) ==
    IF browser_id[1] # "sched"
    THEN [list |-> list, store |-> saved, ret |-> FALSE]
    ELSE LET i == SlotOwner(list, browser_id)
         IN  IF i = 0
             THEN [list |-> list, store |-> saved, ret |-> FALSE]
             ELSE LET moved == [list EXCEPT ![i] = MovedSchedule(list[i], t, d)]
                  IN  [list |-> moved, store |-> moved, ret |-> TRUE]

\* Scheduler.move_to_next_slot
MoveToNextSlot(browser_id, d) ==
    /\ LET r == MoveToNextSlotOn(schedules, store, browser_id, now, d)
       IN  /\ schedules' = r.list
           /\ store' = r.store
    /\ UNCHANGED <<now, ticked, tasks, download_queue, fired, calc>>
    /\ UNCHANGED browserVars
    /\ UNCHANGED lockVars
    /\ UNCHANGED loopVars
    /\ UNCHANGED repoVars

\* the operator's stop of a running download marks its schedule
SetManualStop(browser_id) ==
    /\ \E i \in DOMAIN schedules :
          /\ schedules[i].active_browser_id = browser_id
          /\ schedules[i].status = "download_started"
          /\ ~schedules[i].manual_stop
          /\ schedules' = [schedules EXCEPT ![i].manual_stop = TRUE]
    /\ store' = schedules'
    /\ UNCHANGED <<now, ticked, tasks, download_queue, fired, calc>>
    /\ UNCHANGED browserVars
    /\ UNCHANGED lockVars
    /\ UNCHANGED loopVars
    /\ UNCHANGED repoVars

\* the browser ids the environment knows
KnownIds == DOMAIN download_queue \cup {k.bid : k \in tasks}

CalcIdle == [op |-> "none"]

\* the threads that use the Scheduler: the loop of _run_loop, a thread that
\* serves a request of the web interface, and a Check Task
Threads == {"loop", "web", "task"}

\* the threads that call the ScheduleRepository
RepoThreads == {"web", "loop"}

\* ScheduleRepository.__init__: a new lock and no cache; no file is written
\* yet and no call is under way
RepoIdle ==
    /\ repo_lock = "free"
    /\ repo_file = <<>>
    /\ repo_cache = None
    /\ repo_calls = [th \in RepoThreads |-> [op |-> "none"]]

\* __init__: self.running = False, self.thread = None
LoopIdle ==
    /\ engine = "scheduler"
    /\ running = FALSE
    /\ loops = <<>>

\* self.lock = threading.Lock(), and no thread inside the Scheduler
LockIdle ==
    /\ lock = "free"
    /\ threads = [th \in Threads |-> [op |-> "none", pc |-> "idle"]]

----------------------------------------------------------------------------
(* BrowserService: the queue of launch requests and its worker thread.      *)
(* active_browsers maps a browser_id to "queued" or "launching" (the        *)
(* placeholder dict and its status) or to "detector" (a StreamDetector).    *)
(* chrome holds the Chrome process of each session that has one: "alive",   *)
(* or "closing" once the driver was told to quit and the process has not    *)
(* exited yet.                                                              *)

MaxBrowsers == 2

BrowserIds == 1..MaxBrowsers

\* the function f without the key k
Without(f, k) == [x \in DOMAIN f \ {k} |-> f[x]]

\* the function f with f[k] = v
With(f, k, v) == [x \in DOMAIN f \cup {k} |-> IF x = k THEN v ELSE f[x]]

WorkerIdle == [pc |-> "get", request |-> 0, browsers_to_close |-> {}]

\* BrowserService.__init__
BrowserIdle ==
    /\ active_browsers = <<>>
    /\ browser_queue = <<>>
    /\ worker = WorkerIdle
    /\ callers = [b \in BrowserIds |->
                     [pc |-> "none", completion_event |-> FALSE, success |-> FALSE,
                      ticket |-> 0, closed |-> FALSE]]
    /\ chrome = <<>>

\* BrowserService.start_browser: the placeholder is stored under queue_lock
StartBrowserPlaceholder(b) ==
    /\ callers[b].pc = "none"
    /\ active_browsers' = With(active_browsers, b, "queued")
    /\ callers' = [callers EXCEPT ![b].pc = "placed"]
    /\ UNCHANGED <<browser_queue, worker, chrome>>
    /\ UNCHANGED schedVars
    /\ UNCHANGED lockVars
    /\ UNCHANGED loopVars
    /\ UNCHANGED repoVars

\* BrowserService.start_browser: browser_queue.put(request)
StartBrowserPut(b) ==
    /\ callers[b].pc = "placed"
    /\ browser_queue' = Append(browser_queue, b)
    /\ callers' = [callers EXCEPT
                      ![b].pc = "waiting",
                      ![b].ticket = Cardinality({a \in BrowserIds :
                                                    callers[a].ticket # 0}) + 1]
    /\ UNCHANGED <<active_browsers, worker, chrome>>
    /\ UNCHANGED schedVars
    /\ UNCHANGED lockVars
    /\ UNCHANGED loopVars
    /\ UNCHANGED repoVars

\* BrowserService.start_browser: completion_event.wait() returns
StartBrowserReturn(b) ==
    /\ callers[b].pc = "waiting"
    /\ callers[b].completion_event
    /\ callers' = [callers EXCEPT ![b].pc = "returned"]
    /\ UNCHANGED <<active_browsers, browser_queue, worker, chrome>>
    /\ UNCHANGED schedVars
    /\ UNCHANGED lockVars
    /\ UNCHANGED loopVars
    /\ UNCHANGED repoVars

\* a variant that takes the request that was put last
WorkerGet_Lifo ==
    /\ worker.pc = "get"
    /\ browser_queue # <<>>
    /\ worker' = [worker EXCEPT !.pc = "mark",
                                !.request = browser_queue[Len(browser_queue)]]
    /\ browser_queue' = SubSeq(browser_queue, 1, Len(browser_queue) - 1)
    /\ UNCHANGED <<active_browsers, callers, chrome>>
    /\ UNCHANGED schedVars
    /\ UNCHANGED lockVars
    /\ UNCHANGED loopVars
    /\ UNCHANGED repoVars

\* _process_browser_queue: browser_queue.get
WorkerGet ==
    /\ worker.pc = "get"
    /\ browser_queue # <<>>
    /\ worker' = [worker EXCEPT !.pc = "mark", !.request = Head(browser_queue)]
    /\ browser_queue' = Tail(browser_queue)
    /\ UNCHANGED <<active_browsers, callers, chrome>>
    /\ UNCHANGED schedVars
    /\ UNCHANGED lockVars
    /\ UNCHANGED loopVars
    /\ UNCHANGED repoVars

\* _process_browser_queue: the status goes from 'queued' to 'launching' if
\* the placeholder is still there
WorkerMarkLaunching ==
    /\ worker.pc = "mark"
    /\ active_browsers' =
          IF /\ worker.request \in DOMAIN active_browsers
             /\ active_browsers[worker.request] # "detector"
          THEN With(active_browsers, worker.request, "launching")
          ELSE active_browsers
    /\ worker' = [worker EXCEPT !.pc = "snapshot"]
    /\ UNCHANGED <<browser_queue, callers, chrome>>
    /\ UNCHANGED schedVars
    /\ UNCHANGED lockVars
    /\ UNCHANGED loopVars
    /\ UNCHANGED repoVars

\* _ensure_chrome_closed: the snapshot of the tracked sessions
WorkerSnapshot ==
    /\ worker.pc = "snapshot"
    /\ worker' = [worker EXCEPT
                     !.pc = "close",
                     !.browsers_to_close =
                         {b \in DOMAIN active_browsers : active_browsers[b] = "detector"}]
    /\ UNCHANGED <<active_browsers, browser_queue, callers, chrome>>
    /\ UNCHANGED schedVars
    /\ UNCHANGED lockVars
    /\ UNCHANGED loopVars
    /\ UNCHANGED repoVars

\* StreamDetector.close as BrowserSessionManager.close: the driver is told to
\* quit; the process exits later
DetectorClose(procs, b) ==
    IF b \in DOMAIN procs THEN With(procs, b, "closing") ELSE procs

\* _ensure_chrome_closed: close_browser(bid) for a session of the snapshot
WorkerClosePrevious(b) ==
    /\ worker.pc = "close"
    /\ b \in worker.browsers_to_close
    /\ IF b \in DOMAIN active_browsers
       THEN IF active_browsers[b] = "detector"
            THEN /\ chrome' = DetectorClose(chrome, b)
                 /\ active_browsers' = Without(active_browsers, b)
            ELSE /\ active_browsers' = Without(active_browsers, b)
                 /\ UNCHANGED chrome
       ELSE UNCHANGED <<active_browsers, chrome>>
    /\ worker' = [worker EXCEPT !.browsers_to_close = @ \ {b}]
    /\ UNCHANGED <<browser_queue, callers>>
    /\ UNCHANGED schedVars
    /\ UNCHANGED lockVars
    /\ UNCHANGED loopVars
    /\ UNCHANGED repoVars

\* _ensure_chrome_closed: every session of the snapshot has been closed
WorkerClosedAll ==
    /\ worker.pc = "close"
    /\ worker.browsers_to_close = {}
    /\ worker' = [worker EXCEPT !.pc = "wait"]
    /\ UNCHANGED <<active_browsers, browser_queue, callers, chrome>>
    /\ UNCHANGED schedVars
    /\ UNCHANGED lockVars
    /\ UNCHANGED loopVars
    /\ UNCHANGED repoVars

\* _ensure_chrome_closed: the process check finds no Chrome process
WorkerChromeGone ==
    /\ worker.pc = "wait"
    /\ chrome = <<>>
    /\ worker' = [worker EXCEPT !.pc = "launch"]
    /\ UNCHANGED <<active_browsers, browser_queue, callers, chrome>>
    /\ UNCHANGED schedVars
    /\ UNCHANGED lockVars
    /\ UNCHANGED loopVars
    /\ UNCHANGED repoVars

\* _ensure_chrome_closed: wait_count reaches max_wait with a Chrome process
\* still running, and the worker goes on
WorkerWaitExpired ==
    /\ worker.pc = "wait"
    /\ chrome # <<>>
    /\ worker' = [worker EXCEPT !.pc = "launch"]
    /\ UNCHANGED <<active_browsers, browser_queue, callers, chrome>>
    /\ UNCHANGED schedVars
    /\ UNCHANGED lockVars
    /\ UNCHANGED loopVars
    /\ UNCHANGED repoVars

\* _launch_browser_internal: the detector is created and tracked
WorkerTrackDetector ==
    /\ worker.pc = "launch"
    /\ active_browsers' = With(active_browsers, worker.request, "detector")
    /\ worker' = [worker EXCEPT !.pc = "start"]
    /\ UNCHANGED <<browser_queue, callers, chrome>>
    /\ UNCHANGED schedVars
    /\ UNCHANGED lockVars
    /\ UNCHANGED loopVars
    /\ UNCHANGED repoVars

\* a variant that sets the completion event of a successful launch only
Resolved_OnlyOnSuccess(b, success) ==
    /\ callers' = [callers EXCEPT ![b].completion_event = success,
                                  ![b].success = success]
    /\ worker' = WorkerIdle

\* the result is stored and the completion event set; the worker takes the
\* next request
Resolved(b, success) ==
    /\ callers' = [callers EXCEPT ![b].completion_event = TRUE,
                                  ![b].success = success]
    /\ worker' = WorkerIdle

\* _launch_browser_internal: detector.start_browser(url) returns True
WorkerLaunchSucceeds ==
    /\ worker.pc = "start"
    /\ chrome' = With(chrome, worker.request, "alive")
    /\ Resolved(worker.request, TRUE)
    /\ UNCHANGED <<active_browsers, browser_queue>>
    /\ UNCHANGED schedVars
    /\ UNCHANGED lockVars
    /\ UNCHANGED loopVars
    /\ UNCHANGED repoVars

\* _launch_browser_internal: detector.start_browser(url) returns False, with
\* the driver never created (started = FALSE) or with the driver created and
\* the navigation failed (started = TRUE); the entry is deleted
WorkerLaunchFails(started) ==
    /\ worker.pc = "start"
    /\ chrome' = IF started THEN With(chrome, worker.request, "alive") ELSE chrome
    /\ active_browsers' = Without(active_browsers, worker.request)
    /\ Resolved(worker.request, FALSE)
    /\ UNCHANGED browser_queue
    /\ UNCHANGED schedVars
    /\ UNCHANGED lockVars
    /\ UNCHANGED loopVars
    /\ UNCHANGED repoVars

\* _process_browser_queue: an exception of the launch is caught; the event
\* is set and the result left at its initial value
WorkerLaunchRaises(started) ==
    /\ worker.pc \in {"launch", "start"}
    /\ worker.pc = "launch" => ~started
    /\ chrome' = IF started THEN With(chrome, worker.request, "alive") ELSE chrome
    /\ Resolved(worker.request, FALSE)
    /\ UNCHANGED <<active_browsers, browser_queue>>
    /\ UNCHANGED schedVars
    /\ UNCHANGED lockVars
    /\ UNCHANGED loopVars
    /\ UNCHANGED repoVars

\* BrowserService.close_browser called by a Check Task or by an operator
CloseBrowser(b) ==
    /\ b \in DOMAIN active_browsers
    /\ IF active_browsers[b] = "detector"
       THEN chrome' = DetectorClose(chrome, b)
       ELSE UNCHANGED chrome
    /\ active_browsers' = Without(active_browsers, b)
    /\ callers' = [callers EXCEPT ![b].closed = TRUE]
    /\ UNCHANGED <<browser_queue, worker>>
    /\ UNCHANGED schedVars
    /\ UNCHANGED lockVars
    /\ UNCHANGED loopVars
    /\ UNCHANGED repoVars

\* Scheduler._run_browser_check_task after start_browser has returned: with
\* no success the task returns at once; otherwise it monitors the session and
\* then, or on an exception, calls close_browser
CheckTaskEnds(b) ==
    /\ callers[b].pc = "returned"
    /\ IF callers[b].success /\ b \in DOMAIN active_browsers
       THEN /\ chrome' = IF active_browsers[b] = "detector"
                         THEN DetectorClose(chrome, b)
                         ELSE chrome
            /\ active_browsers' = Without(active_browsers, b)
       ELSE UNCHANGED <<active_browsers, chrome>>
    /\ callers' = [callers EXCEPT ![b].pc = "ended"]
    /\ UNCHANGED <<browser_queue, worker>>
    /\ UNCHANGED schedVars
    /\ UNCHANGED lockVars
    /\ UNCHANGED loopVars
    /\ UNCHANGED repoVars

\* a Chrome process that was told to quit exits
ProcessExit(b) ==
    /\ b \in DOMAIN chrome
    /\ chrome[b] = "closing"
    /\ chrome' = Without(chrome, b)
    /\ UNCHANGED <<active_browsers, browser_queue, worker, callers>>
    /\ UNCHANGED schedVars
    /\ UNCHANGED lockVars
    /\ UNCHANGED loopVars
    /\ UNCHANGED repoVars

InitBrowser ==
    /\ now = FirstMinute
    /\ ticked = FALSE
    /\ schedules = <<>>
    /\ store = <<>>
    /\ tasks = {}
    /\ download_queue = <<>>
    /\ fired = <<>>
    /\ calc = CalcIdle
    /\ BrowserIdle
    /\ LockIdle
    /\ LoopIdle
    /\ RepoIdle

NextBrowser ==
    \/ \E b \in BrowserIds : StartBrowserPlaceholder(b)
    \/ \E b \in BrowserIds : StartBrowserPut(b)
    \/ \E b \in BrowserIds : StartBrowserReturn(b)
    \/ WorkerGet
    \/ WorkerMarkLaunching
    \/ WorkerSnapshot
    \/ \E b \in BrowserIds : WorkerClosePrevious(b)
    \/ WorkerClosedAll
    \/ WorkerChromeGone
    \/ WorkerWaitExpired
    \/ WorkerTrackDetector
    \/ WorkerLaunchSucceeds
    \/ \E started \in BOOLEAN : WorkerLaunchFails(started)
    \/ \E started \in BOOLEAN : WorkerLaunchRaises(started)
    \/ \E b \in BrowserIds : CloseBrowser(b)
    \/ \E b \in BrowserIds : CheckTaskEnds(b)
    \/ \E b \in BrowserIds : ProcessExit(b)

SpecBrowser == InitBrowser /\ [][NextBrowser]_vars

\* a step of the worker thread
WorkerStep ==
    \/ WorkerGet
    \/ WorkerMarkLaunching
    \/ WorkerSnapshot
    \/ \E b \in BrowserIds : WorkerClosePrevious(b)
    \/ WorkerClosedAll
    \/ WorkerChromeGone
    \/ WorkerWaitExpired
    \/ WorkerTrackDetector
    \/ WorkerLaunchSucceeds
    \/ \E started \in BOOLEAN : WorkerLaunchFails(started)
    \/ \E started \in BOOLEAN : WorkerLaunchRaises(started)

\* the worker thread keeps running, every step of a launch terminates, and a
\* caller whose event is set goes on
SpecBrowserFair ==
    /\ InitBrowser
    /\ [][NextBrowser]_vars
    /\ WF_vars(WorkerStep)
    /\ \A b \in BrowserIds : WF_vars(StartBrowserReturn(b))

Init ==
    /\ now = FirstMinute
    /\ ticked = FALSE
    /\ \E cfg \in Configs, d \in Intervals :
          schedules = <<UpdateNextCheck(NewSchedule(cfg, now), now, d)>>
    /\ store = schedules
    /\ tasks = {}
    /\ download_queue = <<>>
    /\ fired = <<>>
    /\ calc = CalcIdle
    /\ BrowserIdle
    /\ LockIdle
    /\ LoopIdle
    /\ RepoIdle

Next ==
    \/ Advance
    \/ Tick
    \/ \E k \in tasks, ok \in BOOLEAN : TaskStartBrowser(k, ok)
    \/ \E k \in tasks : TaskDownloadStarted(k)
    \/ \E k \in tasks : TaskFinish(k)
    \/ \E k \in tasks : DownloadStart(k)
    \/ \E b \in DOMAIN download_queue : DownloadEnd(b)
    \/ \E b \in KnownIds, d \in Intervals : MoveToNextSlot(b, d)
    \/ \E b \in KnownIds : SetManualStop(b)

Spec == Init /\ [][Next]_vars

----------------------------------------------------------------------------
(* The pure operations applied to one schedule at one instant: SpecCalc     *)
(* draws a schedule, a clock value and a download queue, applies one        *)
(* operation and keeps its result in calc.                                  *)

Statuses == {"pending", "active", "download_started", "completed"}

CalcBrowserId == BrowserId(1, 0)

CalcSchedules ==
    { [id |-> 1, daily |-> cfg.daily, repeat |-> cfg.repeat,
       start_time |-> cfg.start_time, end_time |-> cfg.end_time,
       status |-> st, next_check |-> nc, last_check |-> None,
       active_browser_id |-> IF st = "download_started" THEN CalcBrowserId ELSE None,
       manual_stop |-> FALSE] :
          cfg \in Configs, st \in Statuses,
          nc \in {None} \cup {IsoFormat(u) : u \in Times} }

CalcQueues == { <<>>, CalcBrowserId :> "active" }

CalcInput(s, t, dq) ==
    [op |-> "input", s |-> s, t |-> t, dq |-> dq,
     out |-> s, ret |-> FALSE, again |-> None,
     bid |-> None, list |-> <<>>, moved |-> <<>>, second |-> None,
     later |-> None, both |-> None]

\* the result of a next_check computation
Computed(op, out) ==
    [calc EXCEPT !.op = op, !.out = out]

\* the result of a due check
Checked(op, res) ==
    [calc EXCEPT !.op = op, !.out = res.s, !.ret = res.dispatch]

CalcUpdateNextCheck(d) ==
    /\ calc.op = "input"
    /\ calc' = Computed("update_next_check", UpdateNextCheck(calc.s, calc.t, d))
    /\ UNCHANGED <<now, ticked, schedules, store, tasks, download_queue, fired>>
    /\ UNCHANGED browserVars
    /\ UNCHANGED lockVars
    /\ UNCHANGED loopVars
    /\ UNCHANGED repoVars

CalcDailyCalculateNextCheck(d) ==
    /\ calc.op = "input"
    /\ calc.s.daily
    /\ calc' = Computed("daily_calculate_next_check",
                        DailyCalculateNextCheck(calc.s, calc.t, d))
    /\ UNCHANGED <<now, ticked, schedules, store, tasks, download_queue, fired>>
    /\ UNCHANGED browserVars
    /\ UNCHANGED lockVars
    /\ UNCHANGED loopVars
    /\ UNCHANGED repoVars

CalcRegularCalculateNextCheck(d) ==
    /\ calc.op = "input"
    /\ ~calc.s.daily
    /\ calc' = Computed("regular_calculate_next_check",
                        RegularCalculateNextCheck(calc.s, calc.t, d))
    /\ UNCHANGED <<now, ticked, schedules, store, tasks, download_queue, fired>>
    /\ UNCHANGED browserVars
    /\ UNCHANGED lockVars
    /\ UNCHANGED loopVars
    /\ UNCHANGED repoVars

\* the same computation a second time, on the schedule the first one left, at
\* the same clock value
CalcAgain(d) ==
    /\ calc.again = None
    /\ \/ /\ calc.op = "update_next_check"
          /\ calc' = [calc EXCEPT !.again = UpdateNextCheck(calc.out, calc.t, d)]
       \/ /\ calc.op = "daily_calculate_next_check"
          /\ calc' = [calc EXCEPT !.again = DailyCalculateNextCheck(calc.out, calc.t, d)]
       \/ /\ calc.op = "regular_calculate_next_check"
          /\ calc' = [calc EXCEPT !.again = RegularCalculateNextCheck(calc.out, calc.t, d)]
    /\ UNCHANGED <<now, ticked, schedules, store, tasks, download_queue, fired>>
    /\ UNCHANGED browserVars
    /\ UNCHANGED lockVars
    /\ UNCHANGED loopVars
    /\ UNCHANGED repoVars

CalcCheckOne(d) ==
    /\ calc.op = "input"
    /\ calc' = Checked("check_one", CheckOne(calc.s, calc.t, calc.dq, d))
    /\ UNCHANGED <<now, ticked, schedules, store, tasks, download_queue, fired>>
    /\ UNCHANGED browserVars
    /\ UNCHANGED lockVars
    /\ UNCHANGED loopVars
    /\ UNCHANGED repoVars

\* one schedule at one instant under both engines: the loop body of
\* Scheduler._check_schedules and that of ScheduleExecutor.execute_schedules
CalcExecuteSchedules(d) ==
    /\ calc.op = "input"
    /\ calc' = [calc EXCEPT !.op = "execute_schedules",
                            !.both = [scheduler |-> CheckOne(calc.s, calc.t, calc.dq, d),
                                      executor |-> ExecuteOne(calc.s, calc.t, d)]]
    /\ UNCHANGED <<now, ticked, schedules, store, tasks, download_queue, fired>>
    /\ UNCHANGED browserVars
    /\ UNCHANGED lockVars
    /\ UNCHANGED loopVars
    /\ UNCHANGED repoVars

CalcDailyCheckSchedule(d) ==
    /\ calc.op = "input"
    /\ calc.s.daily
    /\ calc' = Checked("daily_check_schedule", DailyCheckSchedule(calc.s, calc.t, d))
    /\ UNCHANGED <<now, ticked, schedules, store, tasks, download_queue, fired>>
    /\ UNCHANGED browserVars
    /\ UNCHANGED lockVars
    /\ UNCHANGED loopVars
    /\ UNCHANGED repoVars

CalcRegularCheckSchedule(d) ==
    /\ calc.op = "input"
    /\ ~calc.s.daily
    /\ calc' = Checked("regular_check_schedule", RegularCheckSchedule(calc.s, calc.t, d))
    /\ UNCHANGED <<now, ticked, schedules, store, tasks, download_queue, fired>>
    /\ UNCHANGED browserVars
    /\ UNCHANGED lockVars
    /\ UNCHANGED loopVars
    /\ UNCHANGED repoVars

\* a second schedule of the list, with a download of its own
OtherSchedule ==
    [id |-> 2, daily |-> TRUE, repeat |-> FALSE,
     start_time |-> <<23, 54>>, end_time |-> <<0, 6>>,
     status |-> "download_started", next_check |-> None, last_check |-> None,
     active_browser_id |-> BrowserId(2, 0), manual_stop |-> TRUE]

\* the ids move_to_next_slot is called with: the current one of each schedule,
\* one of an earlier check, one of a schedule that is not in the list, and one
\* that does not start with 'sched_'
MoveIds ==
    {CalcBrowserId, BrowserId(1, 1), BrowserId(2, 0), BrowserId(3, 0),
     <<"manual", 1, 0>>}

\* move_to_next_slot(browser_id) on the list of the drawn schedule and the
\* second one
CalcMoveToNextSlot(browser_id, manual_stop, d) ==
    /\ calc.op = "input"
    /\ LET list == <<[calc.s EXCEPT !.manual_stop = manual_stop], OtherSchedule>>
           r == MoveToNextSlotOn(list, list, browser_id, calc.t, d)
       IN  calc' = [calc EXCEPT !.op = "move_to_next_slot", !.bid = browser_id,
                                !.list = list, !.moved = r, !.ret = r.ret]
    /\ UNCHANGED <<now, ticked, schedules, store, tasks, download_queue, fired>>
    /\ UNCHANGED browserVars
    /\ UNCHANGED lockVars
    /\ UNCHANGED loopVars
    /\ UNCHANGED repoVars

\* schedules whose start_time or end_time cannot be parsed: an ISO timestamp
\* in a daily schedule, an "HH:MM" time in a regular one, an empty string
MalformedSchedules ==
    { [OtherSchedule EXCEPT !.status = "pending", !.active_browser_id = None,
                            !.manual_stop = FALSE, !.start_time = <<0, 23, 54>>],
      [OtherSchedule EXCEPT !.end_time = <<>>],
      [OtherSchedule EXCEPT !.status = "active", !.active_browser_id = None,
                            !.manual_stop = FALSE, !.daily = FALSE,
                            !.next_check = <<0, 23, 54>>] }

\* one tick on a list of the drawn schedule and a malformed one
CalcCheckSchedules(bad, first, d) ==
    /\ calc.op = "input"
    /\ LET list == IF first THEN <<bad, calc.s>> ELSE <<calc.s, bad>>
           r == CheckSchedulesOn(list, list, calc.t, calc.dq, [i \in 1..2 |-> d])
       IN  calc' = [calc EXCEPT
                       !.op = "check_schedules",
                       !.list = list,
                       !.moved = [list |-> [i \in DOMAIN r.res |-> r.res[i].s],
                                  dispatch |-> {i \in DOMAIN r.res : r.res[i].dispatch},
                                  store |-> r.store,
                                  d |-> d]]
    /\ UNCHANGED <<now, ticked, schedules, store, tasks, download_queue, fired>>
    /\ UNCHANGED browserVars
    /\ UNCHANGED lockVars
    /\ UNCHANGED loopVars
    /\ UNCHANGED repoVars

\* refresh_all_schedule_times on a list of the drawn schedule and a second
\* one, malformed or not
CalcRefreshAllScheduleTimes(other, first, d) ==
    /\ calc.op = "input"
    /\ LET list == IF first THEN <<other, calc.s>> ELSE <<calc.s, other>>
           r == RefreshOn(list, list, calc.t, [i \in 1..2 |-> d])
       IN  calc' = [calc EXCEPT !.op = "refresh_all_schedule_times",
                                !.list = list, !.moved = r]
    /\ UNCHANGED <<now, ticked, schedules, store, tasks, download_queue, fired>>
    /\ UNCHANGED browserVars
    /\ UNCHANGED lockVars
    /\ UNCHANGED loopVars
    /\ UNCHANGED repoVars

\* load_schedules on a stored list of the drawn schedule and a second one,
\* malformed or not
CalcLoadSchedules(other, first, d) ==
    /\ calc.op = "input"
    /\ LET file == IF first THEN <<other, calc.s>> ELSE <<calc.s, other>>
       IN  calc' = [calc EXCEPT !.op = "load_schedules", !.list = file,
                                !.moved = LoadOn(file, calc.t, [i \in 1..2 |-> d])]
    /\ UNCHANGED <<now, ticked, schedules, store, tasks, download_queue, fired>>
    /\ UNCHANGED browserVars
    /\ UNCHANGED lockVars
    /\ UNCHANGED loopVars
    /\ UNCHANGED repoVars

\* save_schedules after the load, or after an update that raised:
\* json.dump(self.schedules) replaces the stored list
CalcSaveSchedules ==
    /\ \/ calc.op = "load_schedules"
       \/ calc.op = "update_schedule" /\ calc.moved.raised
    /\ calc' = [calc EXCEPT !.op = IF calc.op = "load_schedules"
                                   THEN "save_schedules" ELSE "save_after_update",
                            !.moved = [calc.moved EXCEPT !.store = calc.moved.list]]
    /\ UNCHANGED <<now, ticked, schedules, store, tasks, download_queue, fired>>
    /\ UNCHANGED browserVars
    /\ UNCHANGED lockVars
    /\ UNCHANGED loopVars
    /\ UNCHANGED repoVars

\* the values of int(time.time() * 1000) at an add_schedule call that
\* follows the one that gave the drawn schedule its id: the same millisecond
\* or a later one
MsReadings == {1, 2}

\* add_schedule, update_schedule or remove_schedule on the list of the drawn
\* schedule, as the web interface calls them
CalcAddSchedule(cfg, ms, d) ==
    /\ calc.op = "input"
    /\ calc' = [calc EXCEPT !.op = "add_schedule", !.list = <<calc.s>>,
                            !.moved = AddOn(<<calc.s>>, <<calc.s>>, cfg, ms, calc.t, d)]
    /\ UNCHANGED <<now, ticked, schedules, store, tasks, download_queue, fired>>
    /\ UNCHANGED browserVars
    /\ UNCHANGED lockVars
    /\ UNCHANGED loopVars
    /\ UNCHANGED repoVars

\* new times that do not parse: an ISO timestamp for a daily schedule, an
\* "HH:MM" time for a regular one
MalformedConfigs ==
    { [daily |-> TRUE,  repeat |-> FALSE, start_time |-> <<0, 23, 54>>, end_time |-> <<0, 6>>],
      [daily |-> FALSE, repeat |-> FALSE, start_time |-> <<23, 54>>, end_time |-> <<0, 6>>] }

CalcUpdateSchedule(schedule_id, cfg, d) ==
    /\ calc.op = "input"
    /\ LET list == <<calc.s, OtherSchedule>>
       IN  calc' = [calc EXCEPT !.op = "update_schedule", !.list = list,
                                !.moved = UpdateOn(list, list, schedule_id, cfg, calc.t, d)]
    /\ UNCHANGED <<now, ticked, schedules, store, tasks, download_queue, fired>>
    /\ UNCHANGED browserVars
    /\ UNCHANGED lockVars
    /\ UNCHANGED loopVars
    /\ UNCHANGED repoVars

CalcRemoveSchedule(schedule_id) ==
    /\ calc.op = "input"
    /\ LET list == <<calc.s, OtherSchedule>>
       IN  calc' = [calc EXCEPT !.op = "remove_schedule", !.list = list,
                                !.moved = RemoveOn(list, list, schedule_id)]
    /\ UNCHANGED <<now, ticked, schedules, store, tasks, download_queue, fired>>
    /\ UNCHANGED browserVars
    /\ UNCHANGED lockVars
    /\ UNCHANGED loopVars
    /\ UNCHANGED repoVars

\* the same stop a second time
CalcMoveAgain(d) ==
    /\ calc.op = "move_to_next_slot"
    /\ calc.second = None
    /\ calc' = [calc EXCEPT !.second =
                    MoveToNextSlotOn(calc.moved.list, calc.moved.store,
                                     calc.bid, calc.t, d)]
    /\ UNCHANGED <<now, ticked, schedules, store, tasks, download_queue, fired>>
    /\ UNCHANGED browserVars
    /\ UNCHANGED lockVars
    /\ UNCHANGED loopVars
    /\ UNCHANGED repoVars

\* the instants at which the loop ticks after a stop: the observed instants
\* of the night of the stop and of the night after it
LaterTimes == Times \cup {u + MinutesPerDay : u \in Times}

\* the first tick of _run_loop that follows a stop of a daily schedule, at a
\* later instant t2
CalcTickAfterStop(t2, d) ==
    /\ calc.op = "move_to_next_slot"
    /\ calc.second = None
    /\ calc.ret
    /\ t2 > calc.t
    /\ LET list == calc.moved.list
           r == CheckSchedulesOn(list, calc.moved.store, t2, calc.dq,
                                 [i \in DOMAIN list |-> d])
       IN  calc' = [calc EXCEPT !.op = "tick_after_stop",
                                !.later = [t |-> t2, res |-> r.res]]
    /\ UNCHANGED <<now, ticked, schedules, store, tasks, download_queue, fired>>
    /\ UNCHANGED browserVars
    /\ UNCHANGED lockVars
    /\ UNCHANGED loopVars
    /\ UNCHANGED repoVars

\* the Check Task with the browser id of a stop that changed nothing sees its
\* download and writes: the stop came before the write
CalcTaskWrite ==
    /\ calc.op = "move_to_next_slot"
    /\ calc.second = None
    /\ ~calc.ret
    /\ calc.bid[1] = "sched"
    /\ \E i \in DOMAIN calc.list :
          calc.list[i].id = calc.bid[2] /\ calc.list[i].status = "active"
    /\ calc' = [calc EXCEPT !.op = "task_write",
                            !.moved = TaskWriteOn(calc.moved.list, calc.moved.store,
                                                  calc.bid[2], calc.bid)]
    /\ UNCHANGED <<now, ticked, schedules, store, tasks, download_queue, fired>>
    /\ UNCHANGED browserVars
    /\ UNCHANGED lockVars
    /\ UNCHANGED loopVars
    /\ UNCHANGED repoVars

\* the first tick after that write, at t2; the download that was stopped has
\* its 'completed_at'
CalcTickAfterWrite(t2, d) ==
    /\ calc.op = "task_write"
    /\ t2 >= calc.t
    /\ LET list == calc.moved.list
           dq == (calc.bid :> "completed") @@ calc.dq
           r == CheckSchedulesOn(list, calc.moved.store, t2, dq,
                                 [i \in DOMAIN list |-> d])
       IN  calc' = [calc EXCEPT !.op = "tick_after_write",
                                !.later = [t |-> t2, res |-> r.res]]
    /\ UNCHANGED <<now, ticked, schedules, store, tasks, download_queue, fired>>
    /\ UNCHANGED browserVars
    /\ UNCHANGED lockVars
    /\ UNCHANGED loopVars
    /\ UNCHANGED repoVars

InitCalc ==
    /\ now = FirstMinute
    /\ ticked = FALSE
    /\ schedules = <<>>
    /\ store = <<>>
    /\ tasks = {}
    /\ download_queue = <<>>
    /\ fired = <<>>
    /\ \E s \in CalcSchedules, t \in Times, dq \in CalcQueues :
          calc = CalcInput(s, t, dq)
    /\ BrowserIdle
    /\ LockIdle
    /\ LoopIdle
    /\ RepoIdle

NextCalc ==
    \/ \E d \in Intervals : CalcUpdateNextCheck(d)
    \/ \E d \in Intervals : CalcDailyCalculateNextCheck(d)
    \/ \E d \in Intervals : CalcRegularCalculateNextCheck(d)
    \/ \E d \in Intervals : CalcAgain(d)
    \/ \E d \in Intervals : CalcCheckOne(d)
    \/ \E d \in Intervals : CalcDailyCheckSchedule(d)
    \/ \E d \in Intervals : CalcRegularCheckSchedule(d)
    \/ \E b \in MoveIds, m \in BOOLEAN, d \in Intervals : CalcMoveToNextSlot(b, m, d)
    \/ \E d \in Intervals : CalcMoveAgain(d)
    \/ \E t2 \in LaterTimes, d \in Intervals : CalcTickAfterStop(t2, d)
    \/ CalcTaskWrite
    \/ \E t2 \in Times, d \in Intervals : CalcTickAfterWrite(t2, d)
    \/ \E bad \in MalformedSchedules, first \in BOOLEAN, d \in Intervals :
          CalcCheckSchedules(bad, first, d)
    \/ \E other \in MalformedSchedules \cup {OtherSchedule}, first \in BOOLEAN,
          d \in Intervals :
          CalcRefreshAllScheduleTimes(other, first, d)
    \/ \E other \in MalformedSchedules \cup {OtherSchedule}, first \in BOOLEAN,
          d \in Intervals :
          CalcLoadSchedules(other, first, d)
    \/ CalcSaveSchedules
    \/ \E cfg \in Configs, ms \in MsReadings, d \in Intervals : CalcAddSchedule(cfg, ms, d)
    \/ \E d \in Intervals : CalcExecuteSchedules(d)
    \/ \E id \in 1..3, cfg \in Configs \cup MalformedConfigs, d \in Intervals :
          CalcUpdateSchedule(id, cfg, d)
    \/ \E id \in 1..3 : CalcRemoveSchedule(id)

SpecCalc == InitCalc /\ [][NextCalc]_vars

----------------------------------------------------------------------------
(* The operations of the Scheduler as steps of threads (SpecLock): a thread *)
(* enters an operation, taking self.lock where the code has 'with           *)
(* self.lock', then performs the operation's accesses to the schedule list  *)
(* and leaves.                                                              *)

MaxSchedules == 1

\* a variant in which the Check Task takes the lock before start_browser
LockedOps_WithTaskRead ==
    {"check_schedules", "add_schedule", "remove_schedule", "update_schedule",
     "refresh_all_schedule_times", "move_to_next_slot", "task_write", "task_read"}

\* the operations whose accesses are inside 'with self.lock'
LockedOps ==
    {"check_schedules", "add_schedule", "remove_schedule", "update_schedule",
     "refresh_all_schedule_times", "move_to_next_slot", "task_write"}

\* the operations that read the schedules outside any 'with self.lock':
\* get_schedules sorts self.schedules, _run_browser_check_task reads the
\* fields of its schedule dict
UnlockedOps == {"get_schedules", "task_read"}

\* the operations a thread runs
OpsOf(th) ==
    IF th = "loop" THEN {"check_schedules"}
    ELSE IF th = "task" THEN {"task_read", "task_write"}
    ELSE {"add_schedule", "remove_schedule", "update_schedule", "get_schedules",
          "refresh_all_schedule_times", "move_to_next_slot"}

\* a thread enters an operation; 'with self.lock' blocks while the lock is held
Enter(th, op) ==
    /\ threads[th].pc = "idle"
    /\ op \in OpsOf(th)
    /\ op = "add_schedule" => Len(schedules) < MaxSchedules
    /\ op = "task_read" => \E k \in tasks : k.pc = "start"
    /\ op = "task_write" =>
          \E k \in tasks : k.pc = "monitor" /\ GetDownloadStatus(k.bid, download_queue)
    /\ IF op \in LockedOps
       THEN lock = "free" /\ lock' = th
       ELSE UNCHANGED lock
    /\ threads' = [threads EXCEPT ![th] = [op |-> op, pc |-> "access"]]
    /\ UNCHANGED schedVars
    /\ UNCHANGED browserVars
    /\ UNCHANGED loopVars
    /\ UNCHANGED repoVars

\* the thread is at the accesses of the operation
At(th, op) == threads[th].op = op /\ threads[th].pc = "access"

\* the thread leaves its operation; the end of a 'with self.lock' block
\* releases the lock
Leave(th) ==
    /\ threads' = [threads EXCEPT ![th] = [op |-> "none", pc |-> "idle"]]
    /\ lock' = IF threads[th].op \in LockedOps THEN "free" ELSE lock

\* Scheduler._check_schedules
LockedCheckSchedules(th) ==
    /\ At(th, "check_schedules")
    /\ \E ds \in [DOMAIN schedules -> Intervals] :
          LET r == CheckSchedulesOn(schedules, store, now, download_queue, ds)
              new == Dispatched(r.res, now)
          IN  /\ schedules' = [i \in DOMAIN schedules |-> r.res[i].s]
              /\ store' = r.store
              /\ tasks' = IF Cardinality(tasks \cup new) <= MaxTasks
                          THEN tasks \cup new
                          ELSE tasks
    /\ Leave(th)
    /\ UNCHANGED <<now, ticked, download_queue, fired, calc>>
    /\ UNCHANGED browserVars
    /\ UNCHANGED loopVars
    /\ UNCHANGED repoVars

\* Scheduler.add_schedule
LockedAddSchedule(th, cfg, d) ==
    /\ At(th, "add_schedule")
    /\ LET r == AddOn(schedules, store, cfg, now, now, d)
       IN  /\ schedules' = r.list
           /\ store' = r.store
    /\ Leave(th)
    /\ UNCHANGED <<now, ticked, tasks, download_queue, fired, calc>>
    /\ UNCHANGED browserVars
    /\ UNCHANGED loopVars
    /\ UNCHANGED repoVars

\* Scheduler.remove_schedule
LockedRemoveSchedule(th, schedule_id) ==
    /\ At(th, "remove_schedule")
    /\ LET r == RemoveOn(schedules, store, schedule_id)
       IN  /\ schedules' = r.list
           /\ store' = r.store
    /\ Leave(th)
    /\ UNCHANGED <<now, ticked, tasks, download_queue, fired, calc>>
    /\ UNCHANGED browserVars
    /\ UNCHANGED loopVars
    /\ UNCHANGED repoVars

\* Scheduler.update_schedule
LockedUpdateSchedule(th, schedule_id, cfg, d) ==
    /\ At(th, "update_schedule")
    /\ LET r == UpdateOn(schedules, store, schedule_id, cfg, now, d)
       IN  /\ schedules' = r.list
           /\ store' = r.store
    /\ Leave(th)
    /\ UNCHANGED <<now, ticked, tasks, download_queue, fired, calc>>
    /\ UNCHANGED browserVars
    /\ UNCHANGED loopVars
    /\ UNCHANGED repoVars

\* Scheduler.get_schedules: sorted(self.schedules, ...) reads the list and the
\* next_check of each schedule
GetSchedules(th) ==
    /\ At(th, "get_schedules")
    /\ Leave(th)
    /\ UNCHANGED schedVars
    /\ UNCHANGED browserVars
    /\ UNCHANGED loopVars
    /\ UNCHANGED repoVars

\* Scheduler.refresh_all_schedule_times
LockedRefreshAllScheduleTimes(th) ==
    /\ At(th, "refresh_all_schedule_times")
    /\ \E ds \in [DOMAIN schedules -> Intervals] :
          LET r == RefreshOn(schedules, store, now, ds)
          IN  /\ schedules' = r.list
              /\ store' = r.store
    /\ Leave(th)
    /\ UNCHANGED <<now, ticked, tasks, download_queue, fired, calc>>
    /\ UNCHANGED browserVars
    /\ UNCHANGED loopVars
    /\ UNCHANGED repoVars

\* Scheduler.move_to_next_slot
LockedMoveToNextSlot(th, browser_id, d) ==
    /\ At(th, "move_to_next_slot")
    /\ LET r == MoveToNextSlotOn(schedules, store, browser_id, now, d)
       IN  /\ schedules' = r.list
           /\ store' = r.store
    /\ Leave(th)
    /\ UNCHANGED <<now, ticked, tasks, download_queue, fired, calc>>
    /\ UNCHANGED browserVars
    /\ UNCHANGED loopVars
    /\ UNCHANGED repoVars

\* Scheduler._run_browser_check_task: the thread reads schedule['id'],
\* schedule['url'] and the other fields for start_browser, which returns
TaskReadsSchedule(th, task, success) ==
    /\ At(th, "task_read")
    /\ task \in tasks
    /\ task.pc = "start"
    /\ tasks' = IF success
                THEN (tasks \ {task}) \cup {[task EXCEPT !.pc = "monitor"]}
                ELSE tasks \ {task}
    /\ Leave(th)
    /\ UNCHANGED <<now, ticked, schedules, store, download_queue, fired, calc>>
    /\ UNCHANGED browserVars
    /\ UNCHANGED loopVars
    /\ UNCHANGED repoVars

\* Scheduler._run_browser_check_task: status and active_browser_id are
\* written and the list saved
LockedTaskWrite(th, task) ==
    /\ At(th, "task_write")
    /\ task \in tasks
    /\ task.pc = "monitor"
    /\ LET i == FirstWithId(schedules, task.sid)
       IN  IF i = 0
           THEN UNCHANGED <<schedules, store>>
           ELSE /\ schedules' = [schedules EXCEPT ![i].status = "download_started",
                                                  ![i].active_browser_id = task.bid]
                /\ store' = schedules'
    /\ tasks' = tasks \ {task}
    /\ Leave(th)
    /\ UNCHANGED <<now, ticked, download_queue, fired, calc>>
    /\ UNCHANGED browserVars
    /\ UNCHANGED loopVars
    /\ UNCHANGED repoVars

\* the ids of the schedules of the list, and one that no schedule has
ScheduleIds == {schedules[i].id : i \in DOMAIN schedules} \cup {0}

\* the clock value at which the operations run is drawn at the start
\* the browser ids a stop names: those of the Check Tasks and downloads, and
\* the id of a session that no schedule started
StopIds == KnownIds \cup {<<"manual", 0, 0>>}

InitLock ==
    /\ now \in Times
    /\ ticked = FALSE
    /\ schedules = <<>>
    /\ store = <<>>
    /\ tasks = {}
    /\ download_queue = <<>>
    /\ fired = <<>>
    /\ calc = CalcIdle
    /\ BrowserIdle
    /\ LockIdle
    /\ LoopIdle
    /\ RepoIdle

NextLock ==
    \/ \E th \in Threads, op \in LockedOps \cup UnlockedOps : Enter(th, op)
    \/ \E th \in Threads : LockedCheckSchedules(th)
    \/ \E th \in Threads, cfg \in Configs, d \in Intervals : LockedAddSchedule(th, cfg, d)
    \/ \E th \in Threads, id \in ScheduleIds : LockedRemoveSchedule(th, id)
    \/ \E th \in Threads, id \in ScheduleIds, cfg \in Configs, d \in Intervals :
          LockedUpdateSchedule(th, id, cfg, d)
    \/ \E th \in Threads : GetSchedules(th)
    \/ \E th \in Threads : LockedRefreshAllScheduleTimes(th)
    \/ \E th \in Threads, b \in StopIds, d \in Intervals : LockedMoveToNextSlot(th, b, d)
    \/ \E th \in Threads, k \in tasks, ok \in BOOLEAN : TaskReadsSchedule(th, k, ok)
    \/ \E th \in Threads, k \in tasks : LockedTaskWrite(th, k)
    \/ \E k \in tasks : DownloadStart(k)
    \/ \E b \in DOMAIN download_queue : DownloadEnd(b)

SpecLock == InitLock /\ [][NextLock]_vars

\* a step of a thread inside a 'with self.lock' block
LockedStep ==
    \/ \E th \in Threads : LockedCheckSchedules(th)
    \/ \E th \in Threads, cfg \in Configs, d \in Intervals : LockedAddSchedule(th, cfg, d)
    \/ \E th \in Threads, id \in ScheduleIds : LockedRemoveSchedule(th, id)
    \/ \E th \in Threads, id \in ScheduleIds, cfg \in Configs, d \in Intervals :
          LockedUpdateSchedule(th, id, cfg, d)
    \/ \E th \in Threads : LockedRefreshAllScheduleTimes(th)
    \/ \E th \in Threads, b \in StopIds, d \in Intervals : LockedMoveToNextSlot(th, b, d)
    \/ \E th \in Threads, k \in tasks : LockedTaskWrite(th, k)

\* a thread inside a 'with self.lock' block goes on: the block makes no call
\* that waits; nothing is assumed of start_browser, which may never return
SpecLockFair == InitLock /\ [][NextLock]_vars /\ WF_vars(LockedStep)

-----------------------------------------------------------------------------
(* The loop thread: start, stop and _run_loop of the Scheduler and of the    *)
(* ScheduleExecutor. start and stop may be called from any thread at any     *)
(* time; stop's join(timeout=2) blocks its caller only, for two seconds at   *)
(* most, and changes nothing.                                                *)

\* the two classes that have start, stop and _run_loop
Engines == {"scheduler", "executor"}

\* for _ in range(30)
SleepSteps == 30

\* the threads that start() creates in one run
MaxLoops == 2

\* the loop threads that have not returned from _run_loop
LiveLoops == {n \in DOMAIN loops : loops[n].pc # "done"}

\* a thread as threading.Thread(target=self._run_loop).start() creates it:
\* at the test of 'while self.running'; warned is set once stop() has been
\* called in the life of the thread
NewLoop == [pc |-> "while", slept |-> 0, warned |-> FALSE]

\* start(): 'if self.running: return', else the flag is set and a new thread
\* is created and started
Start ==
    /\ Len(loops) < MaxLoops
    /\ IF running
       THEN UNCHANGED <<running, loops>>
       ELSE /\ running' = TRUE
            /\ loops' = Append(loops, NewLoop)
    /\ UNCHANGED engine
    /\ UNCHANGED schedVars
    /\ UNCHANGED browserVars
    /\ UNCHANGED lockVars
    /\ UNCHANGED repoVars

\* stop(): self.running = False, then the bounded join
Stop ==
    /\ running' = FALSE
    /\ loops' = [n \in DOMAIN loops |->
                    IF n \in LiveLoops THEN [loops[n] EXCEPT !.warned = TRUE]
                    ELSE loops[n]]
    /\ UNCHANGED engine
    /\ UNCHANGED schedVars
    /\ UNCHANGED browserVars
    /\ UNCHANGED lockVars
    /\ UNCHANGED repoVars

\* _run_loop, 'while self.running:': the thread enters the body or returns
LoopWhile(n) ==
    /\ n \in DOMAIN loops
    /\ loops[n].pc = "while"
    /\ loops' = [loops EXCEPT ![n].pc = IF running THEN "tick" ELSE "done"]
    /\ UNCHANGED <<engine, running>>
    /\ UNCHANGED schedVars
    /\ UNCHANGED browserVars
    /\ UNCHANGED lockVars
    /\ UNCHANGED repoVars

\* the body of the try block: Scheduler._run_loop calls _check_schedules,
\* ScheduleExecutor._run_loop executes 'pass'
LoopTick(n) ==
    /\ n \in DOMAIN loops
    /\ loops[n].pc = "tick"
    /\ loops' = [loops EXCEPT ![n].pc = "for", ![n].slept = 0]
    /\ IF engine = "scheduler"
       THEN \E ds \in [DOMAIN schedules -> Intervals] :
               LET r == CheckSchedulesOn(schedules, store, now, download_queue, ds)
                   new == Dispatched(r.res, now)
               IN  /\ schedules' = [i \in DOMAIN schedules |-> r.res[i].s]
                   /\ store' = r.store
                   /\ tasks' = tasks \cup new
       ELSE UNCHANGED <<schedules, store, tasks>>
    /\ UNCHANGED <<engine, running>>
    /\ UNCHANGED <<now, ticked, download_queue, fired, calc>>
    /\ UNCHANGED browserVars
    /\ UNCHANGED lockVars
    /\ UNCHANGED repoVars

\* 'for _ in range(30): if not self.running: break': the wait ends after
\* thirty sleeps or when the flag is seen cleared, else the thread sleeps
LoopFor(n) ==
    /\ n \in DOMAIN loops
    /\ loops[n].pc = "for"
    /\ loops' = [loops EXCEPT ![n].pc = IF loops[n].slept = SleepSteps \/ ~running
                                        THEN "while" ELSE "sleep"]
    /\ UNCHANGED <<engine, running>>
    /\ UNCHANGED schedVars
    /\ UNCHANGED browserVars
    /\ UNCHANGED lockVars
    /\ UNCHANGED repoVars

\* time.sleep(1) returns
LoopSleep(n) ==
    /\ n \in DOMAIN loops
    /\ loops[n].pc = "sleep"
    /\ loops' = [loops EXCEPT ![n].pc = "for", ![n].slept = loops[n].slept + 1]
    /\ UNCHANGED <<engine, running>>
    /\ UNCHANGED schedVars
    /\ UNCHANGED browserVars
    /\ UNCHANGED lockVars
    /\ UNCHANGED repoVars

\* a step of a loop thread
LoopStep == \E n \in 1..MaxLoops : LoopWhile(n) \/ LoopTick(n) \/ LoopFor(n) \/ LoopSleep(n)

\* the schedule the engine holds when it is started: a daily window across
\* midnight
LoopConfig == CHOOSE cfg \in Configs : cfg.daily /\ SpansMidnight(cfg)

\* the engine has been constructed and not started; its schedule was added
\* before its window, and the clock has reached the start of the window
InitLoop ==
    /\ now \in {t \in Times :
                  DailyWindow(NewSchedule(LoopConfig, FirstMinute), t).start = t}
    /\ ticked = FALSE
    /\ \E d \in Intervals :
          schedules = <<UpdateNextCheck(NewSchedule(LoopConfig, FirstMinute),
                                        FirstMinute, d)>>
    /\ store = schedules
    /\ tasks = {}
    /\ download_queue = <<>>
    /\ fired = <<>>
    /\ calc = CalcIdle
    /\ BrowserIdle
    /\ LockIdle
    /\ engine \in Engines
    /\ running = FALSE
    /\ loops = <<>>
    /\ RepoIdle

NextLoop ==
    \/ Start
    \/ Stop
    \/ \E n \in 1..MaxLoops : LoopWhile(n)
    \/ \E n \in 1..MaxLoops : LoopTick(n)
    \/ \E n \in 1..MaxLoops : LoopFor(n)
    \/ \E n \in 1..MaxLoops : LoopSleep(n)

SpecLoop == InitLoop /\ [][NextLoop]_vars

\* a started thread is scheduled again and again, and time.sleep(1) returns
SpecLoopFair == SpecLoop /\ WF_vars(LoopStep)

-----------------------------------------------------------------------------
(* The ScheduleRepository: its calls from RepoThreads. self.lock is a        *)
(* threading.Lock, which a thread that holds it cannot acquire again.        *)

\* the ids of the schedules that are stored
MaxRepoIds == 2

\* a stored schedule: its id and one field that update_schedule changes
RepoSchedule(id, status) == [id |-> id, status |-> status]

\* the lists that are passed to save_schedules
RepoLists ==
    {<<>>} \cup {<<RepoSchedule(i, "pending")>> : i \in 1..MaxRepoIds}
           \cup {<<RepoSchedule(i, "pending"), RepoSchedule(j, "pending")>> :
                    i \in 1..MaxRepoIds, j \in 1..MaxRepoIds}

\* [s for s in schedules if s['id'] != schedule_id]
RECURSIVE RepoWithout(_, _)
RepoWithout(list, schedule_id) ==
    IF list = <<>> THEN <<>>
    ELSE IF Head(list).id = schedule_id THEN RepoWithout(Tail(list), schedule_id)
         ELSE <<Head(list)>> \o RepoWithout(Tail(list), schedule_id)

\* the list after schedule.update(updates) on the first schedule with the id
RepoUpdated(list, schedule_id, status) ==
    LET k == CHOOSE i \in DOMAIN list :
                /\ list[i].id = schedule_id
                /\ \A j \in DOMAIN list : list[j].id = schedule_id => i <= j
    IN  [list EXCEPT ![k].status = status]

\* a thread calls an operation and comes to its 'with self.lock'
RepoCall(th, op, arg) ==
    /\ repo_calls[th].op = "none"
    /\ repo_calls' = [repo_calls EXCEPT ![th] =
                         [op |-> op, pc |-> "lock", arg |-> arg, list |-> <<>>]]
    /\ UNCHANGED <<repo_lock, repo_file, repo_cache>>
    /\ UNCHANGED schedVars
    /\ UNCHANGED browserVars
    /\ UNCHANGED lockVars
    /\ UNCHANGED loopVars

\* add_schedule(schedule)
RepoAddSchedule(th, id) == RepoCall(th, "add_schedule", RepoSchedule(id, "pending"))

\* remove_schedule(schedule_id)
RepoRemoveSchedule(th, id) == RepoCall(th, "remove_schedule", id)

\* update_schedule(schedule_id, updates)
RepoUpdateSchedule(th, id) == RepoCall(th, "update_schedule", id)

\* save_schedules(schedules), called from outside the repository
RepoSaveSchedules(th, list) == RepoCall(th, "save_schedules", list)

\* 'with self.lock:' is entered, at the head of an operation or at the head
\* of the save_schedules that add, remove and update call: the lock has to
\* be free, whoever asks
RepoAcquire(th) ==
    /\ repo_calls[th].op # "none"
    /\ repo_calls[th].pc \in {"lock", "save_lock"}
    /\ repo_lock = "free"
    /\ repo_lock' = th
    /\ repo_calls' = [repo_calls EXCEPT ![th].pc =
                         IF repo_calls[th].op = "save_schedules"
                               \/ repo_calls[th].pc = "save_lock"
                         THEN "write" ELSE "body",
                                        ![th].list =
                         IF repo_calls[th].op = "save_schedules"
                         THEN repo_calls[th].arg ELSE repo_calls[th].list]
    /\ UNCHANGED <<repo_file, repo_cache>>
    /\ UNCHANGED schedVars
    /\ UNCHANGED browserVars
    /\ UNCHANGED lockVars
    /\ UNCHANGED loopVars

\* the body of add_schedule, remove_schedule and update_schedule up to its
\* call of save_schedules or, if the id is not found, to its return:
\* _load_for_modification reads the file and the change is applied
RepoBody(th) ==
    /\ repo_calls[th].op # "none"
    /\ repo_calls[th].pc = "body"
    /\ LET c == repo_calls[th]
           found == \E i \in DOMAIN repo_file : repo_file[i].id = c.arg
       IN  IF c.op = "add_schedule"
           THEN /\ repo_calls' = [repo_calls EXCEPT
                                     ![th].list = Append(repo_file, c.arg),
                                     ![th].pc = "save_lock"]
                /\ UNCHANGED repo_lock
           ELSE IF found
                THEN /\ repo_calls' = [repo_calls EXCEPT
                                          ![th].list =
                                             IF c.op = "remove_schedule"
                                             THEN RepoWithout(repo_file, c.arg)
                                             ELSE RepoUpdated(repo_file, c.arg, "active"),
                                          ![th].pc = "save_lock"]
                     /\ UNCHANGED repo_lock
                ELSE /\ repo_calls' = [repo_calls EXCEPT ![th] = [op |-> "none"]]
                     /\ repo_lock' = "free"
    /\ UNCHANGED <<repo_file, repo_cache>>
    /\ UNCHANGED schedVars
    /\ UNCHANGED browserVars
    /\ UNCHANGED lockVars
    /\ UNCHANGED loopVars

\* the body of save_schedules: json.dump to the file, the cache is set, the
\* lock is released, and the operation returns
RepoWrite(th) ==
    /\ repo_calls[th].op # "none"
    /\ repo_calls[th].pc = "write"
    /\ repo_file' = repo_calls[th].list
    /\ repo_cache' = <<repo_calls[th].list>>
    /\ repo_lock' = "free"
    /\ repo_calls' = [repo_calls EXCEPT ![th] = [op |-> "none"]]
    /\ UNCHANGED schedVars
    /\ UNCHANGED browserVars
    /\ UNCHANGED lockVars
    /\ UNCHANGED loopVars

\* a step of a thread inside the repository
RepoStep(th) == RepoAcquire(th) \/ RepoBody(th) \/ RepoWrite(th)

InitRepo ==
    /\ now = FirstMinute
    /\ ticked = FALSE
    /\ schedules = <<>>
    /\ store = <<>>
    /\ tasks = {}
    /\ download_queue = <<>>
    /\ fired = <<>>
    /\ calc = CalcIdle
    /\ BrowserIdle
    /\ LockIdle
    /\ LoopIdle
    /\ RepoIdle

NextRepo ==
    \/ \E th \in RepoThreads, id \in 1..MaxRepoIds : RepoAddSchedule(th, id)
    \/ \E th \in RepoThreads, id \in 1..MaxRepoIds : RepoRemoveSchedule(th, id)
    \/ \E th \in RepoThreads, id \in 1..MaxRepoIds : RepoUpdateSchedule(th, id)
    \/ \E th \in RepoThreads, list \in RepoLists : RepoSaveSchedules(th, list)
    \/ \E th \in RepoThreads : RepoAcquire(th)
    \/ \E th \in RepoThreads : RepoBody(th)
    \/ \E th \in RepoThreads : RepoWrite(th)

SpecRepo == InitRepo /\ [][NextRepo]_vars

\* a thread inside the repository goes on whenever it can, and one that
\* waits for the lock gets it if the lock is free again and again
SpecRepoFair == SpecRepo /\ \A th \in RepoThreads : SF_vars(RepoStep(th))

----------------------------------------------------------------------------
(* Properties of the Scheduler's tick (Spec).                               *)

\* a step of Tick
TickStep == ~ticked /\ ticked'

\* the end clock time of a daily schedule is earlier than its start
Spanning(s) == ClockOf(s.end_time) < ClockOf(s.start_time)

TodayStart(s, t) == (t \div 1440) * 1440 + ClockOf(s.start_time)

TodayEnd(s, t) == (t \div 1440) * 1440 + ClockOf(s.end_time)

\* the window a schedule is in, or next to, at instant t
ClaimWindow(s, t) ==
    IF ~s.daily
    THEN [start |-> FromIsoFormat(s.start_time), end |-> FromIsoFormat(s.end_time)]
    ELSE IF ~Spanning(s)
    THEN [start |-> TodayStart(s, t), end |-> TodayEnd(s, t)]
    ELSE IF t % 1440 < ClockOf(s.start_time)
    THEN [start |-> TodayStart(s, t) - 1440, end |-> TodayEnd(s, t)]
    ELSE [start |-> TodayStart(s, t), end |-> TodayEnd(s, t) + 1440]

\* the download of the schedule's active_browser_id is in the download queue
\* and has not completed
Running(s) ==
    /\ s.active_browser_id \in DOMAIN download_queue
    /\ download_queue[s.active_browser_id] = "active"

\* the tick starts a Check Task for the schedule with this id
DispatchedNow(id) == \E k \in tasks' \ tasks : k.sid = id

\* C2: a tick that finds a download_started schedule inside its window with
\* its download no longer active and manual_stop false leaves it active with
\* active_browser_id null, and dispatches a check in that same tick when its
\* next_check is null or has elapsed
C2_AutoResume ==
    [][TickStep =>
        \A i \in DOMAIN schedules :
            LET s == schedules[i]
            IN  ( /\ s.status = "download_started"
                  /\ ~Running(s)
                  /\ ~s.manual_stop
                  /\ ClaimWindow(s, now).start <= now
                  /\ now <= ClaimWindow(s, now).end )
                => /\ schedules'[i].status = "active"
                   /\ schedules'[i].active_browser_id = None
                   /\ (s.next_check = None \/ now >= FromIsoFormat(s.next_check))
                         => DispatchedNow(s.id)]_vars

\* a tick has resumed a schedule after its download ended and dispatched it
C2_Witness ==
    /\ ticked
    /\ \E i \in DOMAIN schedules :
          /\ schedules[i].id \in DOMAIN fired
          /\ fired[schedules[i].id].resumed
          /\ schedules[i].status = "active"
          /\ schedules[i].active_browser_id = None
          /\ BrowserId(schedules[i].id, now) \in {k.bid : k \in tasks}

\* C3: a tick that finds a download_started schedule with manual_stop true
\* and its download gone does not resume it: it advances it to its next
\* occurrence (pending for daily / repeating, completed for one-shot) and
\* clears manual_stop
C3_ManualStopPrecedence ==
    [][TickStep =>
        \A i \in DOMAIN schedules :
            LET s == schedules[i]
            IN  ( /\ s.status = "download_started"
                  /\ s.manual_stop
                  /\ ~Running(s) )
                => /\ schedules'[i].status # "active"
                   /\ schedules'[i].status =
                         IF s.daily \/ s.repeat THEN "pending" ELSE "completed"
                   /\ ~schedules'[i].manual_stop]_vars

\* C4: a tick after end_time that finds a one-shot schedule which became
\* download_started inside its window, with its download no longer active,
\* leaves it completed
C4_OneShotCompletes ==
    [][TickStep =>
        \A i \in DOMAIN schedules :
            LET s == schedules[i]
            IN  ( /\ ~s.daily /\ ~s.repeat
                  /\ s.status = "download_started"
                  /\ s.id \in DOMAIN fired
                  /\ fired[s.id].written = "in"
                  /\ now > FromIsoFormat(s.end_time)
                  /\ ~Running(s) )
                => schedules'[i].status = "completed"]_vars

C10_NoDoubleFire ==
    [][TickStep =>
        \A i \in DOMAIN schedules :
            LET s == schedules[i]
            IN  /\ Cardinality({k \in tasks' \ tasks : k.sid = s.id}) <= 1
                /\ ( /\ DispatchedNow(s.id)
                     /\ s.id \in DOMAIN fired
                     /\ fired[s.id].start = ClaimWindow(s, now).start )
                   => /\ fired[s.id].next_check # None
                      /\ now >= FromIsoFormat(fired[s.id].next_check)]_vars

\* a schedule has been dispatched a second time in one window
C10_Witness ==
    \E id \in DOMAIN fired : fired[id].again /\ ticked

----------------------------------------------------------------------------
(* Properties of the pure operations (SpecCalc).                            *)

NextCheckOps ==
    {"update_next_check", "daily_calculate_next_check", "regular_calculate_next_check"}

\* C6: for a daily schedule with start < end, a check is due (the tick calls
\* _perform_check, check_schedule returns true) only at a now between
\* today's start and today's end, whatever its status and next_check
C6_DailyDueOnlyInWindow ==
    ( /\ calc.op \in {"check_one", "daily_check_schedule"}
      /\ calc.s.daily
      /\ ClockOf(calc.s.start_time) < ClockOf(calc.s.end_time)
      /\ calc.ret )
    => /\ TodayStart(calc.s, calc.t) <= calc.t
       /\ calc.t <= TodayEnd(calc.s, calc.t)

\* a same-day daily schedule was found due
C6_Witness ==
    /\ calc.op \in {"check_one", "daily_check_schedule"}
    /\ calc.s.daily
    /\ ClockOf(calc.s.start_time) < ClockOf(calc.s.end_time)
    /\ calc.ret

\* C8: next_check computed inside the window is min(now + d, end) for a d of
\* 5 to 8 minutes, so now <= next_check <= end; computed before the window
\* it is the window start
C8_NextCheckCadence ==
    calc.op \in NextCheckOps
    => LET w == ClaimWindow(calc.s, calc.t)
           nc == calc.out.next_check
       IN  /\ (w.start <= calc.t /\ calc.t <= w.end)
              => /\ nc # None
                 /\ \E d \in 5..8 :
                       FromIsoFormat(nc) = IF calc.t + d < w.end THEN calc.t + d ELSE w.end
                 /\ calc.t <= FromIsoFormat(nc)
                 /\ FromIsoFormat(nc) <= w.end
           /\ (calc.t < w.start)
              => /\ nc # None
                 /\ FromIsoFormat(nc) = w.start

\* next_check was computed less than 5 minutes before the window end and is
\* the window end
C8_Witness ==
    /\ calc.op \in NextCheckOps
    /\ ClaimWindow(calc.s, calc.t).start <= calc.t
    /\ calc.t < ClaimWindow(calc.s, calc.t).end
    /\ calc.t + 5 > ClaimWindow(calc.s, calc.t).end
    /\ FromIsoFormat(calc.out.next_check) = ClaimWindow(calc.s, calc.t).end

\* C9 as stated: the second of two computations at the same now gives a
\* next_check equal to or later than the first, and not past the window end
C9_SecondNotEarlier ==
    (calc.again # None /\ calc.out.next_check # None /\ calc.again.next_check # None)
    => /\ FromIsoFormat(calc.again.next_check) >= FromIsoFormat(calc.out.next_check)
       /\ (ClaimWindow(calc.s, calc.t).start <= calc.t
              /\ calc.t <= ClaimWindow(calc.s, calc.t).end)
             => FromIsoFormat(calc.again.next_check) <= ClaimWindow(calc.s, calc.t).end

\* C9 as amended: inside the window the second next_check is not past the
\* window end, not before now, and at most 3 minutes earlier than the first;
\* outside the window it equals the first
C9_SecondWithinSpread ==
    calc.again # None
    => LET w == ClaimWindow(calc.s, calc.t)
           first == calc.out.next_check
           second == calc.again.next_check
       IN  IF w.start <= calc.t /\ calc.t <= w.end
           THEN /\ first # None /\ second # None
                /\ FromIsoFormat(second) <= w.end
                /\ FromIsoFormat(second) >= calc.t
                /\ FromIsoFormat(second) >= FromIsoFormat(first) - 3
           ELSE second = first

\* the second computation gave an earlier next_check than the first
C9_Witness ==
    /\ calc.again # None
    /\ calc.out.next_check # None
    /\ calc.again.next_check # None
    /\ FromIsoFormat(calc.again.next_check) < FromIsoFormat(calc.out.next_check)

----------------------------------------------------------------------------
(* Properties of the BrowserService (SpecBrowser).                          *)

\* the sessions that are live: the one the worker is launching and those
\* whose Chrome process has not exited
LiveSessions ==
    DOMAIN chrome \cup (IF worker.pc \in {"launch", "start"} THEN {worker.request} ELSE {})

\* C1: at no time are two browser sessions live (launching or running): the
\* worker launches a request only after every session launched before it has
\* been fully closed
C1_SingleFlight ==
    Cardinality(LiveSessions) <= 1

----------------------------------------------------------------------------
(* Properties of the Scheduler's states and of move_to_next_slot.           *)

\* C11: in every reachable state a schedule whose status is
\* download_started has a non-null active_browser_id
C11_DownloadStartedHasBrowserId ==
    \A i \in DOMAIN schedules :
        schedules[i].status = "download_started"
            => schedules[i].active_browser_id # None

\* the start of the first window of the schedule that starts after t; for a
\* regular schedule whose window has started there is none (-1)
NextWindowStart(s, t) ==
    IF s.daily
    THEN IF t % 1440 < ClockOf(s.start_time)
         THEN TodayStart(s, t)
         ELSE TodayStart(s, t) + 1440
    ELSE IF t < FromIsoFormat(s.start_time)
         THEN FromIsoFormat(s.start_time)
         ELSE -1

\* C12: once the tick of the current instant has run, a non-null next_check
\* lies inside the window the schedule is in or is the start of its next
\* upcoming window: it is neither left in a window that has passed nor
\* beyond the next occurrence
C12_NextCheckInWindow ==
    ticked =>
        \A i \in DOMAIN schedules :
            LET s == schedules[i]
                w == ClaimWindow(s, now)
            IN  s.next_check # None
                => \/ /\ w.start <= now
                      /\ now <= w.end
                      /\ w.start <= FromIsoFormat(s.next_check)
                      /\ FromIsoFormat(s.next_check) <= w.end
                   \/ FromIsoFormat(s.next_check) = NextWindowStart(s, now)

\* the schedule of the list that the id of a stop names: its id is the one in
\* the browser id, and the browser id is its current active_browser_id
StopMatches(list, i, bid) ==
    /\ bid[1] = "sched"
    /\ list[i].id = bid[2]
    /\ list[i].active_browser_id = bid

\* C13: move_to_next_slot(browser_id) changes a schedule only when browser_id
\* is that schedule's current active_browser_id; with any other id it returns
\* False and leaves every schedule and the saved list as they were; the same
\* stop a second time changes nothing.
C13_OnlyCurrentBrowserId ==
    calc.op = "move_to_next_slot" =>
        /\ \A i \in DOMAIN calc.list :
              ~StopMatches(calc.list, i, calc.bid)
                  => calc.moved.list[i] = calc.list[i]
        /\ (\A i \in DOMAIN calc.list : ~StopMatches(calc.list, i, calc.bid))
              => /\ ~calc.ret
                 /\ calc.moved.list = calc.list
                 /\ calc.moved.store = calc.list
        /\ calc.second # None
              => /\ ~calc.second.ret
                 /\ calc.second.list = calc.moved.list
                 /\ calc.second.store = calc.moved.store

\* a stop with the id of an earlier check of a schedule that has a download
C13_Witness ==
    /\ calc.op = "move_to_next_slot"
    /\ calc.bid = <<"sched", 1, 1>>
    /\ calc.list[1].active_browser_id = <<"sched", 1, 0>>
    /\ ~calc.ret
    /\ calc.second # None

\* C14: a stop with the current active_browser_id leaves a daily schedule
\* pending with next_check at its start time on the next calendar day, a
\* weekly one pending with start and end seven days later, a one-shot one
\* completed; in each case active_browser_id is null and manual_stop false.
C14_MovedToNextSlot ==
    calc.op = "move_to_next_slot" =>
        \A i \in DOMAIN calc.list :
            StopMatches(calc.list, i, calc.bid) =>
                LET s == calc.list[i]
                    m == calc.moved.list[i]
                IN  /\ calc.ret
                    /\ m.active_browser_id = None
                    /\ m.manual_stop = FALSE
                    /\ s.daily =>
                          /\ m.status = "pending"
                          /\ m.next_check # None
                          /\ FromIsoFormat(m.next_check)
                                = (calc.t \div 1440 + 1) * 1440 + ClockOf(s.start_time)
                    /\ (~s.daily /\ s.repeat) =>
                          /\ m.status = "pending"
                          /\ FromIsoFormat(m.start_time)
                                = FromIsoFormat(s.start_time) + 7 * 1440
                          /\ FromIsoFormat(m.end_time)
                                = FromIsoFormat(s.end_time) + 7 * 1440
                    /\ (~s.daily /\ ~s.repeat) => m.status = "completed"

\* the stop of a daily schedule marked as stopped by hand, inside its window
C14_Witness ==
    /\ calc.op = "move_to_next_slot"
    /\ calc.ret
    /\ calc.bid = <<"sched", 1, 0>>
    /\ calc.list[1].daily
    /\ calc.list[1].manual_stop
    /\ calc.moved.list[1].status = "pending"

\* start_time or end_time of the schedule is not of the format of its kind
Unparseable(s) ==
    \/ s.daily /\ (Len(s.start_time) # 2 \/ Len(s.end_time) # 2)
    \/ ~s.daily /\ (Len(s.start_time) # 3 \/ Len(s.end_time) # 3)

\* C19: a tick leaves a schedule whose start_time or end_time cannot be parsed
\* as it was and in the list, evaluates every other schedule of the list as it
\* would without the malformed one, and saves the list it leaves.
C19_MalformedSkipped ==
    calc.op = "check_schedules" =>
        /\ Len(calc.moved.list) = Len(calc.list)
        /\ calc.moved.store = calc.moved.list
        /\ \A i \in DOMAIN calc.list :
              IF Unparseable(calc.list[i])
              THEN /\ calc.moved.list[i] = calc.list[i]
                   /\ i \notin calc.moved.dispatch
              ELSE LET one == CheckOne(calc.list[i], calc.t, calc.dq, calc.moved.d)
                   IN  /\ calc.moved.list[i] = one.s
                       /\ (i \in calc.moved.dispatch) = one.dispatch

\* the schedule after a malformed one was evaluated and a check dispatched
C19_Witness ==
    /\ calc.op = "check_schedules"
    /\ Unparseable(calc.list[1])
    /\ ~Unparseable(calc.list[2])
    /\ 2 \in calc.moved.dispatch
    /\ calc.moved.list[2] # calc.list[2]
    /\ calc.moved.list[1] = calc.list[1]

----------------------------------------------------------------------------
(* Properties of the launch queue (SpecBrowser, SpecBrowserFair).           *)

\* the worker has taken the request b from the queue
LaunchBegun(b) ==
    \/ worker.request = b /\ worker.pc # "get"
    \/ callers[b].completion_event

\* C15: the worker launches in the order of the puts: when the launch of a
\* request has begun, every request that was put before it has been resolved.
C15_LaunchInPutOrder ==
    \A a \in BrowserIds, b \in BrowserIds :
        (/\ callers[a].ticket # 0
         /\ callers[a].ticket < callers[b].ticket
         /\ LaunchBegun(b))
            => callers[a].completion_event

\* two requests are waiting, and the launch of the one put second has begun
C15_Witness ==
    \E a \in BrowserIds, b \in BrowserIds :
        /\ callers[a].ticket = 1
        /\ callers[b].ticket = 2
        /\ callers[a].pc = "waiting"
        /\ worker.request = b
        /\ worker.pc = "start"

\* what get_browser_status(b) reports: the placeholder's status, "session"
\* for a tracked detector, "nothing" for an id that is not tracked
Reported(b) ==
    IF b \notin DOMAIN active_browsers THEN "nothing"
    ELSE IF active_browsers[b] = "detector" THEN "session"
    ELSE active_browsers[b]

\* C16: of a request that nobody closed, get_browser_status reports 'queued'
\* until the worker takes it and 'launching' until the launch starts; once
\* the request is resolved it reports the session or nothing after a success
\* and nothing after a failure.
C16_StatusProgress ==
    \A b \in BrowserIds :
        /\ (callers[b].pc \in {"placed", "waiting"}
              /\ ~callers[b].closed /\ ~LaunchBegun(b))
              => Reported(b) = "queued"
        /\ (worker.request = b /\ ~callers[b].closed
              /\ worker.pc \in {"snapshot", "close", "wait", "launch"})
              => Reported(b) = "launching"
        /\ (callers[b].completion_event /\ callers[b].success)
              => Reported(b) \in {"session", "nothing"}
        /\ (callers[b].completion_event /\ ~callers[b].success)
              => Reported(b) = "nothing"

\* C17: a start_browser call that has put its request returns.
C17_StartBrowserReturns ==
    \A b \in BrowserIds :
        (callers[b].pc = "waiting") ~> (callers[b].pc = "returned")

\* a call has returned with no success after it waited behind another request
C17_Witness ==
    \E a \in BrowserIds, b \in BrowserIds :
        /\ callers[a].ticket = 1
        /\ callers[b].ticket = 2
        /\ callers[b].pc = "returned"
        /\ ~callers[b].success

\* C18: once the Check Task of a request has ended, nothing is tracked under
\* its browser_id and the worker is not held by it.
C18_NothingLeftTracked ==
    \A b \in BrowserIds :
        callers[b].pc = "ended"
            => /\ b \notin DOMAIN active_browsers
               /\ worker.request # b

\* C22: a one-shot schedule that is completed stays completed in every step
\* of the tick and of the Check Tasks, and no check of it is dispatched.
C22_CompletedIsTerminal ==
    [][\A i \in DOMAIN schedules :
          (~schedules[i].daily /\ ~schedules[i].repeat
              /\ schedules[i].status = "completed")
            => /\ i \in DOMAIN schedules'
               /\ schedules'[i].status = "completed"
               /\ ~DispatchedNow(schedules[i].id)]_vars

\* C23: refresh_all_schedule_times leaves every schedule of the list pending
\* with active_browser_id null, manual_stop false, last_check null and the
\* next_check that _update_next_check computes at the current time, saves the
\* list and returns the number of schedules.
C23_RefreshResetsAll ==
    calc.op = "refresh_all_schedule_times" =>
        /\ ~calc.moved.raised
        /\ calc.moved.count = Len(calc.list)
        /\ calc.moved.store = calc.moved.list
        /\ Len(calc.moved.list) = Len(calc.list)
        /\ \A i \in DOMAIN calc.list :
              LET m == calc.moved.list[i]
              IN  /\ m.status = "pending"
                  /\ m.active_browser_id = None
                  /\ m.manual_stop = FALSE
                  /\ m.last_check = None
                  /\ ~Unparseable(calc.list[i])
                        => \E d \in 5..8 :
                              m.next_check =
                                UpdateNextCheck(calc.list[i], calc.t, d).next_check

\* the schedules of the list have pairwise distinct ids
DistinctIds(list) ==
    \A i \in DOMAIN list, j \in DOMAIN list : list[i].id = list[j].id => i = j

\* C24: add_schedule, remove_schedule and update_schedule on a list of
\* pairwise distinct ids leave a list of pairwise distinct ids, and every
\* schedule that stays in the list keeps its id.
C24_IdsDistinctAndFixed ==
    (calc.op \in {"add_schedule", "update_schedule", "remove_schedule"}
        /\ DistinctIds(calc.list))
      => /\ DistinctIds(calc.moved.list)
         /\ calc.op \in {"add_schedule", "update_schedule"}
               => \A i \in DOMAIN calc.list : calc.moved.list[i].id = calc.list[i].id
         /\ calc.op = "remove_schedule"
               => \A i \in DOMAIN calc.moved.list :
                     \E j \in DOMAIN calc.list : calc.moved.list[i] = calc.list[j]

----------------------------------------------------------------------------
(* Properties of the Scheduler's lock (SpecLock).                           *)

\* C20: a thread that is at the accesses of an operation on the schedule
\* list or on a schedule holds the lock.
C20_AccessHoldsLock ==
    \A th \in Threads :
        threads[th].pc = "access" => lock = th

\* C21: the Check Task holds the lock only at its write of download_started,
\* and the lock is always released again, also when start_browser never
\* returns.
C21_TaskLockOnlyForWrite ==
    /\ [](lock = "task" =>
            (threads["task"].op = "task_write" /\ threads["task"].pc = "access"))
    /\ []<>(lock = "free")

\* the Check Task waits in start_browser while the loop is in its tick
C21_Witness ==
    /\ threads["task"].op = "task_read"
    /\ threads["task"].pc = "access"
    /\ lock = "loop"
    /\ threads["loop"].op = "check_schedules"

-----------------------------------------------------------------------------
(* Properties of the loop thread (SpecLoop, SpecLoopFair).                   *)

\* C25: a loop thread in whose life stop() has been called starts no further
\* tick and returns from _run_loop, and at no time are there two loop
\* threads that have not returned
C25_StopEndsLoop ==
    /\ [][\A n \in DOMAIN loops :
            (loops[n].warned /\ loops[n].pc # "tick") => loops'[n].pc # "tick"]_vars
    /\ \A n \in 1..MaxLoops :
          (n \in DOMAIN loops /\ loops[n].warned)
             ~> (n \in DOMAIN loops /\ loops[n].pc = "done")
    /\ [](Cardinality(LiveLoops) <= 1)

\* C26: whenever a ScheduleExecutor is running with a schedule that is due,
\* its loop thread comes to dispatch a check or the executor is stopped
C26_ExecutorLoopDispatches ==
    (engine = "executor" /\ running) ~> (~running \/ tasks # {})

\* the Scheduler's loop does dispatch the due schedule
SchedulerLoopDispatches ==
    (engine = "scheduler" /\ running) ~> (~running \/ tasks # {})

-----------------------------------------------------------------------------
(* Properties of the ScheduleRepository (SpecRepoFair).                      *)

\* the thread is in a call of add_schedule, or of remove_schedule or
\* update_schedule that has found its id in the stored list
RepoChanging(th) ==
    /\ repo_calls[th].op \in {"add_schedule", "remove_schedule", "update_schedule"}
    /\ repo_calls[th].pc = "save_lock"

\* C27: a call of add_schedule, and a call of remove_schedule or
\* update_schedule for an id that is stored, returns
C27_RepositoryCallsReturn ==
    \A th \in RepoThreads : RepoChanging(th) ~> (repo_calls[th].op = "none")

-----------------------------------------------------------------------------
(* Properties of the calculators' check_schedule (SpecCalc).                 *)

\* the minute an ISO timestamp stands for
MinuteOfIso(iso) == iso[1] * 1440 + iso[2] * 60 + iso[3]

\* the window that check_schedule resolves for schedule s at minute t: for a
\* daily schedule today's, or for a window across midnight the one that
\* started yesterday while the clock is before today's start
ResolvedWindow(s, t) ==
    LET day == (t \div 1440) * 1440
        from == ClockOf(s.start_time)
        to == ClockOf(s.end_time)
    IN  IF ~s.daily
        THEN [start |-> MinuteOfIso(s.start_time), end |-> MinuteOfIso(s.end_time)]
        ELSE IF to >= from
        THEN [start |-> day + from, end |-> day + to]
        ELSE IF t % 1440 < from
        THEN [start |-> day - 1440 + from, end |-> day + to]
        ELSE [start |-> day + from, end |-> day + 1440 + to]

\* C28: check_schedule of either calculator returns true exactly when now is
\* inside the resolved window, the status is not download_started, and the
\* status was pending on entry or next_check is null or has been reached;
\* after end_time the regular calculator returns false and changes nothing
C28_CheckScheduleDue ==
    calc.op \in {"daily_check_schedule", "regular_check_schedule"}
       => LET s == calc.s
              w == ResolvedWindow(s, calc.t)
          IN  /\ calc.ret <=> /\ w.start <= calc.t
                              /\ calc.t <= w.end
                              /\ s.status # "download_started"
                              /\ \/ s.status = "pending"
                                 \/ s.next_check = None
                                 \/ MinuteOfIso(s.next_check) <= calc.t
              /\ (calc.op = "regular_check_schedule" /\ calc.t > w.end)
                    => (~calc.ret /\ calc.out = s)

\* the daily calculator returns true for a schedule that was pending on entry
\* and whose next_check lies ahead
C28_Witness ==
    /\ calc.op = "daily_check_schedule"
    /\ calc.ret
    /\ calc.s.status = "pending"
    /\ calc.s.next_check # None
    /\ MinuteOfIso(calc.s.next_check) > calc.t

\* C29: a tick at which the window of a daily schedule has passed leaves the
\* schedule, whatever its status was, with status pending, last_check null
\* and next_check at the start of its next occurrence
C29_PassedWindowResets ==
    [][TickStep =>
        \A i \in DOMAIN schedules :
            LET s == schedules[i]
                w == ResolvedWindow(s, now)
            IN  (s.daily /\ now > w.end)
                   => /\ schedules'[i].status = "pending"
                      /\ schedules'[i].last_check = None
                      /\ schedules'[i].next_check # None
                      /\ MinuteOfIso(schedules'[i].next_check) = NextWindowStart(s, now)]_vars

-----------------------------------------------------------------------------
(* Properties of a Check Task that ends without a download (Spec).           *)

\* the step ends a Check Task whose browser did not start, or one that was
\* monitoring a session for which no download is known
EndsWithoutDownload ==
    \E k \in tasks \ tasks' :
        \/ k.pc = "start"
        \/ k.pc = "monitor" /\ k.bid \notin DOMAIN download_queue

\* the schedule is active inside its window and its next_check has come
DueAgain(s, t) ==
    /\ s.status = "active"
    /\ ResolvedWindow(s, t).start <= t
    /\ t <= ResolvedWindow(s, t).end
    /\ s.next_check # None
    /\ MinuteOfIso(s.next_check) <= t

\* C30: a Check Task whose browser start fails, or whose wait ends with no
\* download, changes no schedule record, in memory or saved; and a tick that
\* finds a schedule active in its window with its next_check reached
\* dispatches a check of it
C30_FailedCheckLeavesSchedule ==
    [][/\ EndsWithoutDownload => (schedules' = schedules /\ store' = store)
       /\ TickStep =>
             \A i \in DOMAIN schedules :
                DueAgain(schedules[i], now) => DispatchedNow(schedules[i].id)]_vars

\* a check was dispatched, its task is over and wrote nothing, and the
\* schedule is active with the next_check that the dispatch set
C30_Witness ==
    \E i \in DOMAIN schedules :
        LET s == schedules[i]
        IN  /\ s.id \in DOMAIN fired
            /\ fired[s.id].written = "no"
            /\ ~\E k \in tasks : k.sid = s.id
            /\ s.status = "active"
            /\ s.next_check = fired[s.id].next_check

-----------------------------------------------------------------------------
(* Properties of a manual stop followed by a tick (SpecCalc).                *)

\* C31: the first tick after a manual stop of a daily schedule dispatches no
\* check of it while the window that was stopped lasts, and dispatches one if
\* it falls into the first window that starts after the stop
C31_StopSkipsNoWindow ==
    calc.op = "tick_after_stop" =>
        \A i \in DOMAIN calc.list :
            (StopMatches(calc.list, i, calc.bid) /\ calc.list[i].daily) =>
                LET s == calc.list[i]
                    w == ResolvedWindow(s, calc.t)
                    next == NextWindowStart(s, calc.t)
                    len == w.end - w.start
                    t2 == calc.later.t
                IN  /\ (w.start <= calc.t /\ t2 <= w.end)
                          => ~calc.later.res[i].dispatch
                    /\ (next <= t2 /\ t2 <= next + len)
                          => calc.later.res[i].dispatch

-----------------------------------------------------------------------------
(* Properties of the saved list.                                             *)

\* the operations on the list whose result SpecCalc keeps as a list and the
\* saved copy of it
ListOps ==
    {"add_schedule", "remove_schedule", "update_schedule",
     "refresh_all_schedule_times", "move_to_next_slot"}

\* C32: with the lock free after an operation that changes the list, the
\* saved copy equals the list in memory
C32_StoreEqualsMemory ==
    (lock = "free" /\ calc.op \in ListOps) => calc.moved.store = calc.moved.list

\* the same of the operations as steps of threads, on schedules whose times
\* parse, for every interleaving
LockFreeStoreEqualsMemory == lock = "free" => store = schedules

\* the record has the id of a record of the list
HasRecord(list, r) == \E i \in DOMAIN list : list[i].id = r.id

\* C33: after load_schedules on a stored list, and after a save that follows
\* it, every stored record whose times parse is in memory and in the store
C33_LoadKeepsWellFormed ==
    calc.op \in {"load_schedules", "save_schedules"} =>
        \A i \in DOMAIN calc.list :
            (~Unparseable(calc.list[i]))
               => /\ HasRecord(calc.moved.list, calc.list[i])
                  /\ HasRecord(calc.moved.store, calc.list[i])

-----------------------------------------------------------------------------
(* Properties of the Check Task's write and of a stop that precedes it.      *)

\* C34: a step that makes the status of a schedule download_started finds
\* that schedule active
C34_WrittenOnlyOntoActive ==
    [][\A i \in DOMAIN schedules :
          ( /\ i \in DOMAIN schedules'
            /\ schedules'[i].id = schedules[i].id
            /\ schedules'[i].status = "download_started"
            /\ schedules[i].status # "download_started" )
             => schedules[i].status = "active"]_vars

\* C35: a stop of a started download that comes before the Check Task's
\* write takes effect: the tick that follows in the same window neither
\* makes the schedule active nor dispatches a check of it
C35_EarlyStopTakesEffect ==
    calc.op = "tick_after_write" =>
        \A i \in DOMAIN calc.list :
            LET s == calc.list[i]
                w == ResolvedWindow(s, calc.t)
            IN  ( /\ s.id = calc.bid[2]
                  /\ ~Unparseable(s)
                  /\ w.start <= calc.t
                  /\ calc.later.t <= w.end )
                => /\ ~calc.later.res[i].dispatch
                   /\ calc.later.res[i].s.status # "active"

-----------------------------------------------------------------------------
(* Properties of the window of a weekly schedule (Spec).                     *)

\* the schedule has the window of one of the added weekly schedules, a whole
\* number of weeks away
WeeksFromOriginal(s) ==
    \E cfg \in Configs :
        /\ ~cfg.daily /\ cfg.repeat
        /\ MinuteOfIso(s.end_time) - MinuteOfIso(s.start_time)
              = MinuteOfIso(cfg.end_time) - MinuteOfIso(cfg.start_time)
        /\ (MinuteOfIso(s.start_time) - MinuteOfIso(cfg.start_time)) % (7 * 1440) = 0

\* C36: a weekly schedule always has a window of its original length that
\* starts a whole number of weeks from its original start; a tick after
\* end_time moves the window by one week, whatever the distance of now, and
\* a tick not after end_time leaves it where it is
C36_WeeklyWindowKept ==
    /\ [](\A i \in DOMAIN schedules :
             (~schedules[i].daily /\ schedules[i].repeat)
                => WeeksFromOriginal(schedules[i]))
    /\ [][TickStep =>
            \A i \in DOMAIN schedules :
                LET s == schedules[i]
                    step == IF now > MinuteOfIso(s.end_time) THEN 7 * 1440 ELSE 0
                IN  (~s.daily /\ s.repeat)
                       => /\ MinuteOfIso(schedules'[i].start_time)
                                = MinuteOfIso(s.start_time) + step
                          /\ MinuteOfIso(schedules'[i].end_time)
                                = MinuteOfIso(s.end_time) + step]_vars

\* a weekly schedule whose window lay two weeks back has been moved by one
\* week and its window is still in the past
C36_Witness ==
    \E i \in DOMAIN schedules :
        /\ schedules[i].repeat
        /\ schedules[i].start_time = <<-7, 23, 54>>
        /\ now > MinuteOfIso(schedules[i].end_time)

-----------------------------------------------------------------------------
(* Properties of the loop threads after a restart (SpecLoop).                *)

\* C37: for every sequence of start() and stop(), no two loop threads are in
\* a tick at once, and only the thread that the last start() created begins
\* a tick
C37_OneTickingLoop ==
    /\ [](Cardinality({n \in DOMAIN loops : loops[n].pc = "tick"}) <= 1)
    /\ [][\A n \in DOMAIN loops :
            (loops[n].pc # "tick" /\ loops'[n].pc = "tick") => n = Len(loops)]_vars

-----------------------------------------------------------------------------
(* Properties of update_schedule with times that do not parse (SpecCalc).    *)

\* C38: an update_schedule whose recomputation of next_check fails leaves
\* every schedule record as it was, in memory and, also after a later save,
\* in the store
C38_UpdateAllOrNothing ==
    (calc.op \in {"update_schedule", "save_after_update"} /\ calc.moved.raised)
       => /\ calc.moved.list = calc.list
          /\ calc.moved.store = calc.list

-----------------------------------------------------------------------------
(* Properties of a request closed while queued (SpecBrowserFair).            *)

\* the request b waits in the launch queue and its placeholder is gone
\* after a close_browser(b)
ClosedWhileQueued(b) ==
    /\ \E i \in DOMAIN browser_queue : browser_queue[i] = b
    /\ callers[b].closed
    /\ b \notin DOMAIN active_browsers

\* the worker has created the detector of b and starts its session
SessionLaunched(b) ==
    /\ worker.request = b
    /\ worker.pc = "start"

\* C39: a request whose placeholder close_browser removed while the request
\* was in the queue is never launched by the worker afterwards
C39_ClosedRequestNotLaunched ==
    \A b \in BrowserIds : [](ClosedWhileQueued(b) => [] ~SessionLaunched(b))

-----------------------------------------------------------------------------
(* The two engines on the same schedule at the same instant (SpecCalc).      *)

\* the kind of a next_check: absent or a timestamp
NextCheckKind(s) == IF s.next_check = None THEN "none" ELSE "timestamp"

\* C40: on a schedule with no download in progress, the loop body of
\* Scheduler._check_schedules and that of ScheduleExecutor.execute_schedules
\* dispatch a Check Task alike and leave the same status and the same kind
\* of next_check
C40_EnginesAgree ==
    (calc.op = "execute_schedules" /\ calc.s.status # "download_started")
       => /\ calc.both.scheduler.dispatch = calc.both.executor.dispatch
          /\ calc.both.scheduler.s.status = calc.both.executor.s.status
          /\ NextCheckKind(calc.both.scheduler.s) = NextCheckKind(calc.both.executor.s)
====
